---- MODULE Spec2Model ----
(***************************************************************************)
(* State-machine model of the xiuxian progression core: the character      *)
(* record (models/user.py), the cultivate / breakthrough / adventure       *)
(* command handlers (main.py) and the systems they call (core/game_engine, *)
(* systems/cultivation_system, event_system, battle_system,                *)
(* equipment_system, task_system).                                         *)
(*                                                                         *)
(* Floating-point formulas are computed in exact integer arithmetic:       *)
(* percentages and tenths replace the float factors, and int(x) is the     *)
(* integer quotient.  Random draws are inputs of the actions, taken from   *)
(* small sets.  Times are whole seconds.  The fields no modelled operation  *)
(* reads (username, created_at, last_active, story_context, sect_position)  *)
(* are left out of the record.                                             *)
(***************************************************************************)
EXTENDS Integers, Sequences, FiniteSets, TLC

VARIABLES
    user,      \* the character the commands act on (UserProfile in _user_cache)
    rival,     \* a second character, the opponent of the PvP battles
    server,    \* _game_data_cache["server_stats"]
    now,       \* the clock, datetime.now(), in seconds
    reply,     \* what the command of the last step reported ("none": no command)
    config,    \* ConfigManager._cached_config: the configured balance values read
    ops,       \* excursions, fights, battles, equips and reward claims carried out so far
    pc,        \* where each running cultivate command stands ("idle": not running)
    sects      \* _game_data_cache["sects"]: min_realm and members of each sect

vars == <<user, rival, server, now, reply, config, ops, pc, sects>>

---------------------------------------------------------------------------
(* Bounds of the exploration. *)

MaxTicks == 2        \* the clock advances at most this many times
MaxOps == 1          \* excursions, fights, battles, equips and reward claims explored
GateRounds == 1      \* SpecGate: cooldown lengths the clock readings span
GateSlack == 1       \* SpecGate: seconds explored on each side of a cooldown boundary
MaxFightExp == 100   \* SpecFights: monster fights start at or below this experience
MaxFightAttempts == 1 \* SpecFights: breakthroughs start below this many counted attempts
MaxRateAttempts == 6 \* SpecRate: breakthroughs start below this many counted attempts
RateStartExp == 1000 \* SpecRate: experience the tier-1 character has gathered
MaxBattles == 2      \* SpecPvP: PvP battles fought
MaxTwinSteps == 2    \* SpecTwin: generator runs replayed
MaxEquips == 3       \* SpecEquip: items equipped or used
MaxProgressTier == 1 \* SpecProgress: highest tier a character starts to climb from
MaxTaskDays == 1     \* SpecTasks: days the clock advances

(* Program constants. *)

NoTime == -1                     \* None in an Optional[datetime] field
BaseCultivationExp == 10         \* base_cultivation_exp
BreakthroughBaseRate == 70       \* breakthrough_success_rate 0.7, in percent
CultivationCooldownMinutes == 30 \* cultivation_cooldown, minutes
AdventureCooldown == 3600        \* cooldown table entry "adventure", seconds
BreakthroughCooldown == 7200     \* cooldown table entry "breakthrough", seconds
DefaultCooldown == 1800          \* fallback of ConfigManager.get_cooldown_time

Max(a, b) == IF a >= b THEN a ELSE b
Min(a, b) == IF a <= b THEN a ELSE b

---------------------------------------------------------------------------
(* utils/constants.py: the realm table. *)

REALMS ==
    { [level |-> 1,  max_exp |-> 100],
      [level |-> 2,  max_exp |-> 300],
      [level |-> 3,  max_exp |-> 800],
      [level |-> 4,  max_exp |-> 2000],
      [level |-> 5,  max_exp |-> 5000],
      [level |-> 6,  max_exp |-> 12000],
      [level |-> 7,  max_exp |-> 30000],
      [level |-> 8,  max_exp |-> 80000],
      [level |-> 9,  max_exp |-> 200000],
      [level |-> 10, max_exp |-> 999999999] }

\* GameEngine.get_realm_info: the entries of the table for a level (empty: None)
get_realm_info(realm_level) == { r \in REALMS : r.level = realm_level }

---------------------------------------------------------------------------
(* models/user.py: the character record. *)

\* personality_pool of DataManager.create_new_user, in English:
\* diligent 勤奋刻苦, gifted 天赋异禀, fortunate 运气极佳, resolute 意志坚定,
\* calm 心境平和, curious 好奇心强, cautious 谨慎小心, fearless 勇敢无畏,
\* wise 智慧过人, kind 仁慈善良
personality_pool ==
    { "diligent", "gifted", "fortunate", "resolute", "calm",
      "curious", "cautious", "fearless", "wise", "kind" }

\* the trait triples random.sample may give that the exploration starts from
TraitChoices ==
    { {"calm", "curious", "cautious"},
      {"fortunate", "resolute", "diligent"} }

Slots == {"weapon_slot", "armor_slot", "accessory_slot"}

NoItem == [type |-> "none", attack |-> 0, defense |-> 0, hp |-> 0,
           spiritual_power |-> 0, healing |-> 0, exp_bonus |-> 0]

\* sect_id None
NoSect == "none"

\* task_progress before any progress is recorded: no entry
NoProgress == [key \in {} |-> [progress |-> 0, completed |-> FALSE]]

\* _game_data_cache["sects"] before the default sects are created: no sect
NoSects == [sect_id \in {} |-> [min_realm |-> 1, members |-> {}]]

\* the cultivate commands that may run at the same time for the character
Handlers == {"first", "second"}

\* UserProfile as create_new_user builds it (dataclass defaults)
NewUser(traits) ==
    [ realm_level |-> 1,
      experience |-> 0,
      spiritual_power |-> 100,
      cultivation_points |-> 0,
      breakthrough_attempts |-> 0,
      last_cultivation_time |-> NoTime,
      last_breakthrough_time |-> NoTime,
      last_adventure_time |-> NoTime,
      strength |-> 10,
      agility |-> 10,
      intelligence |-> 10,
      constitution |-> 10,
      luck |-> 10,
      attack_power |-> 0,
      defense_power |-> 0,
      max_hp |-> 100,
      current_hp |-> 100,
      equipment |-> [s \in Slots |-> NoItem],
      inventory |-> << >>,
      wins |-> 0,
      losses |-> 0,
      achievements |-> {},
      claimed_rewards |-> {},
      sect_id |-> NoSect,
      task_progress |-> NoProgress,
      personality_traits |-> traits ]

\* UserStats.calculate_combat_power
calculate_combat_power(u) ==
    u.strength * 2 + u.agility + u.intelligence + u.constitution
    + u.attack_power + u.defense_power

---------------------------------------------------------------------------
(* utils/config_manager.py and utils/constants.py: cooldown lengths. *)

\* get_cooldown_time giving the configured minutes as they are, not as seconds
get_cooldown_time_minutes(action_type) ==
    CASE action_type = "cultivation" -> CultivationCooldownMinutes
      [] OTHER -> DefaultCooldown

\* ConfigManager.get_cooldown_time(action_type), seconds
get_cooldown_time(action_type) ==
    CASE action_type = "cultivation" -> CultivationCooldownMinutes * 60
      [] OTHER -> DefaultCooldown

---------------------------------------------------------------------------
(* core/game_engine.py: cultivation experience and the cultivate events. *)

\* uniform(0.8, 1.5), in tenths: the draws explored
RandomFactors == {8, 14}

\* GameEngine.calculate_cultivation_exp with random factor rf10 / 10
calculate_cultivation_exp(u, rf10) ==
    LET trait10 == 10
                   + (IF "diligent" \in u.personality_traits THEN 2 ELSE 0)
                   + (IF "gifted" \in u.personality_traits THEN 3 ELSE 0)
        final_exp == (BaseCultivationExp * (10 + u.realm_level) * trait10 * rf10)
                     \div 1000
    IN  Max(1, final_exp)

NoEvent == [type |-> "normal", reward_type |-> "none", reward_value |-> 0,
            penalty_type |-> "none", penalty_value |-> 0]

\* event_weights of generate_random_event, in thousandths
cultivate_event_weights(u) ==
    LET lucky == "fortunate" \in u.personality_traits
    IN  [ normal |-> 600,
          fortune |-> 150 + (IF lucky THEN 100 ELSE 0),
          disaster |-> 100 - (IF lucky THEN 50 ELSE 0),
          encounter |-> 150 ]

_generate_fortune_event(u) ==
    { [NoEvent EXCEPT !.type = "fortune", !.reward_type = "exp",
                      !.reward_value = u.realm_level * 50],
      [NoEvent EXCEPT !.type = "fortune", !.reward_type = "cultivation_points",
                      !.reward_value = 10],
      [NoEvent EXCEPT !.type = "fortune", !.reward_type = "exp",
                      !.reward_value = u.realm_level * 30] }

_generate_disaster_event(u) ==
    { [NoEvent EXCEPT !.type = "disaster", !.penalty_type = "exp",
                      !.penalty_value = u.experience \div 20],
      [NoEvent EXCEPT !.type = "disaster", !.penalty_type = "hp",
                      !.penalty_value = u.max_hp \div 4] }

_generate_encounter_event(u) ==
    { [NoEvent EXCEPT !.type = "encounter", !.reward_type = "exp",
                      !.reward_value = 20],
      [NoEvent EXCEPT !.type = "encounter", !.reward_type = "cultivation_points",
                      !.reward_value = 5] }

\* GameEngine.generate_random_event: every event random.choices and
\* random.choice can return (a category needs a positive weight)
generate_random_event(u) ==
    LET w == cultivate_event_weights(u)
    IN  (IF w.normal > 0 THEN {NoEvent} ELSE {})
        \cup (IF w.fortune > 0 THEN _generate_fortune_event(u) ELSE {})
        \cup (IF w.disaster > 0 THEN _generate_disaster_event(u) ELSE {})
        \cup (IF w.encounter > 0 THEN _generate_encounter_event(u) ELSE {})

\* GameEngine.apply_event_rewards
apply_event_rewards(u, event) ==
    LET rewarded ==
            CASE event.reward_type = "exp" ->
                     [u EXCEPT !.experience = @ + event.reward_value]
              [] event.reward_type = "cultivation_points" ->
                     [u EXCEPT !.cultivation_points = @ + event.reward_value]
              [] event.reward_type = "hp" ->
                     [u EXCEPT !.current_hp =
                          Min(u.max_hp, u.current_hp + event.reward_value)]
              [] OTHER -> u
    IN  CASE event.penalty_type = "exp" ->
                 [rewarded EXCEPT !.experience =
                      Max(0, rewarded.experience - event.penalty_value)]
          [] event.penalty_type = "hp" ->
                 [rewarded EXCEPT !.current_hp =
                      Max(1, rewarded.current_hp - event.penalty_value)]
          [] OTHER -> rewarded

---------------------------------------------------------------------------
(* core/game_engine.py: breakthrough. *)

\* random.random() of perform_breakthrough, in percent: the draws explored
DrawPercents == {0, 75, 99}

\* the five random.randint results of _upgrade_stats_on_breakthrough explored:
\* every stat at its lowest and every stat at its highest increase
StatRolls ==
    { [strength |-> 2, agility |-> 2, intelligence |-> 2, constitution |-> 2,
       luck |-> 1],
      [strength |-> 5, agility |-> 5, intelligence |-> 5, constitution |-> 5,
       luck |-> 3] }

\* ConfigManager._load_default_config: the balance values the model reads
default_config == [breakthrough_success_rate |-> BreakthroughBaseRate]

\* get_game_balance_value(config_manager, "breakthrough_success_rate", 0.7),
\* in percent
base_rate == config.breakthrough_success_rate

\* calculate_breakthrough_success_rate with the 0.95 cap applied to the base
\* rate alone, before the bonuses are added
calculate_breakthrough_success_rate_base_capped(u) ==
    LET attempt_bonus == Min(10, u.breakthrough_attempts * 2)
        trait_bonus == (IF "resolute" \in u.personality_traits THEN 10 ELSE 0)
                       + (IF "fortunate" \in u.personality_traits THEN 15 ELSE 0)
    IN  Min(95, base_rate) + attempt_bonus + trait_bonus

\* calculate_breakthrough_success_rate in whole units where the draw is in
\* percent
calculate_breakthrough_success_rate_in_units(u) ==
    LET attempt_bonus == Min(10, u.breakthrough_attempts * 2)
        trait_bonus == (IF "resolute" \in u.personality_traits THEN 10 ELSE 0)
                       + (IF "fortunate" \in u.personality_traits THEN 15 ELSE 0)
    IN  Min(95, base_rate + attempt_bonus + trait_bonus) \div 100

\* GameEngine.calculate_breakthrough_success_rate, in percent
calculate_breakthrough_success_rate(u) ==
    LET attempt_bonus == Min(10, u.breakthrough_attempts * 2)
        trait_bonus == (IF "resolute" \in u.personality_traits THEN 10 ELSE 0)
                       + (IF "fortunate" \in u.personality_traits THEN 15 ELSE 0)
    IN  Min(95, base_rate + attempt_bonus + trait_bonus)

\* can_breakthrough without the comparison with max_exp
can_breakthrough_unchecked(u) ==
    LET current_realm == get_realm_info(u.realm_level)
    IN  current_realm # {}

\* GameEngine.can_breakthrough
can_breakthrough(u) ==
    LET current_realm == get_realm_info(u.realm_level)
    IN  IF current_realm = {}
        THEN FALSE
        ELSE \E r \in current_realm : u.experience >= r.max_exp

\* GameEngine._upgrade_stats_on_breakthrough with the drawn increases
_upgrade_stats_on_breakthrough(u, inc) ==
    LET raised == [u EXCEPT !.strength = @ + inc.strength,
                            !.agility = @ + inc.agility,
                            !.intelligence = @ + inc.intelligence,
                            !.constitution = @ + inc.constitution,
                            !.luck = @ + inc.luck]
        hp == raised.constitution * 10 + raised.realm_level * 50
    IN  [raised EXCEPT !.max_hp = hp,
                       !.current_hp = hp,
                       !.attack_power = raised.strength * 2 + raised.realm_level * 10,
                       !.defense_power = raised.constitution + raised.realm_level * 5]

\* success of perform_breakthrough: random.random() < success_rate
breakthrough_draw_succeeds(u, d) == d < calculate_breakthrough_success_rate(u)

\* breakthrough_success advancing two tiers at once
breakthrough_success_skip(u, inc) ==
    _upgrade_stats_on_breakthrough(
        [u EXCEPT !.realm_level = @ + 2,
                  !.experience = 0,
                  !.breakthrough_attempts = 0], inc)

\* the record after a successful draw
breakthrough_success(u, inc) ==
    _upgrade_stats_on_breakthrough(
        [u EXCEPT !.realm_level = @ + 1,
                  !.experience = 0,
                  !.breakthrough_attempts = 0], inc)

\* breakthrough_failure taking a fifth of the experience
breakthrough_failure_fifth(u) ==
    LET exp_loss == u.experience \div 5
    IN  [u EXCEPT !.experience = Max(0, u.experience - exp_loss)]

\* the record after a failed draw
breakthrough_failure(u) ==
    LET exp_loss == u.experience \div 10
    IN  [u EXCEPT !.experience = Max(0, u.experience - exp_loss)]

\* perform_breakthrough counting the attempt after the outcome is applied
perform_breakthrough_count_last(u, d, inc, t) ==
    LET success == breakthrough_draw_succeeds(u, d)
        after == IF success THEN breakthrough_success(u, inc)
                            ELSE breakthrough_failure(u)
    IN  [after EXCEPT !.breakthrough_attempts = @ + 1,
                      !.last_breakthrough_time = t]

\* GameEngine.perform_breakthrough with draw d (percent) at clock reading t
perform_breakthrough(u, d, inc, t) ==
    LET success == breakthrough_draw_succeeds(u, d)
        counted == [u EXCEPT !.breakthrough_attempts = @ + 1,
                             !.last_breakthrough_time = t]
    IN  IF success THEN breakthrough_success(counted, inc)
                   ELSE breakthrough_failure(counted)

\* CultivationSystem.attempt_breakthrough: the breakthrough and its achievement
attempt_breakthrough(u, d, inc, t) ==
    LET after == perform_breakthrough(u, d, inc, t)
    IN  IF breakthrough_draw_succeeds(u, d)
        THEN [after EXCEPT !.achievements = @ \cup {after.realm_level}]
        ELSE after

---------------------------------------------------------------------------
(* systems/battle_system.py: PvP and monster fights. *)

\* monster_types of generate_monster: power_range in hundredths
monster_types ==
    { [name |-> "beast",   power_min |-> 70,  power_max |-> 100],
      [name |-> "demon",   power_min |-> 90,  power_max |-> 130],
      [name |-> "heretic", power_min |-> 110, power_max |-> 150],
      [name |-> "fiend",   power_min |-> 130, power_max |-> 200] }

\* the monster classes whose powers are explored: the weakest and the strongest
MonsterDraws == {"beast", "fiend"}

\* BattleSystem.generate_monster: the monster powers explored, each explored
\* class at the two ends of its uniform range (int(level * 50 * factor))
generate_monster(user_level) ==
    { (user_level * 50 * m) \div 100 :
        m \in { t.power_min : t \in { c \in monster_types : c.name \in MonsterDraws } }
              \cup { t.power_max : t \in { c \in monster_types : c.name \in MonsterDraws } } }

\* win_rate of fight_monster compared with the draw d (percent):
\* d / 100 < min(0.9, max(0.1, ratio / (ratio + 1))) [+ 0.1 when fortunate],
\* where ratio / (ratio + 1) = user_power / (user_power + monster_power + 1)
monster_draw_wins(u, monster_power, d) ==
    LET user_power == calculate_combat_power(u)
        total == user_power + monster_power + 1
        e == IF "fortunate" \in u.personality_traits THEN d - 10 ELSE d
    IN  /\ e < 90
        /\ (e < 10 \/ e * total < 100 * user_power)

\* win_rate of fight_monster as the draw meets it, a numerator over
\* 100 * (user_power + monster_power + 1): the clamp to [0.1, 0.9] comes
\* first, the 0.1 of a fortunate character is added after it
monster_win_rate(u, monster_power) ==
    LET user_power == calculate_combat_power(u)
        total == user_power + monster_power + 1
        win_rate == Min(90 * total, Max(10 * total, 100 * user_power))
    IN  IF "fortunate" \in u.personality_traits
        THEN win_rate + 10 * total
        ELSE win_rate

\* fight_monster_result with the experience loss of a defeat not floored at 0
fight_monster_result_unfloored(u, monster_power, d) ==
    IF monster_draw_wins(u, monster_power, d)
    THEN LET exp_reward == Max(15, monster_power \div 8)
         IN  [u EXCEPT !.experience = @ + exp_reward]
    ELSE LET exp_loss == Max(5, u.experience \div 20)
             hp_loss == Max(10, u.max_hp \div 10)
         IN  [u EXCEPT !.experience = u.experience - exp_loss,
                       !.current_hp = Max(1, u.current_hp - hp_loss)]

\* fight_monster_result with the reward of a victory lacking its minimum of 15
fight_monster_result_no_minimum(u, monster_power, d) ==
    IF monster_draw_wins(u, monster_power, d)
    THEN LET exp_reward == monster_power \div 8
         IN  [u EXCEPT !.experience = @ + exp_reward]
    ELSE LET exp_loss == Max(5, u.experience \div 20)
             hp_loss == Max(10, u.max_hp \div 10)
         IN  [u EXCEPT !.experience = Max(0, u.experience - exp_loss),
                       !.current_hp = Max(1, u.current_hp - hp_loss)]

\* BattleSystem.fight_monster: the record after the fight
fight_monster_result(u, monster_power, d) ==
    IF monster_draw_wins(u, monster_power, d)
    THEN LET exp_reward == Max(15, monster_power \div 8)
         IN  [u EXCEPT !.experience = @ + exp_reward]
    ELSE LET exp_loss == Max(5, u.experience \div 20)
             hp_loss == Max(10, u.max_hp \div 10)
         IN  [u EXCEPT !.experience = Max(0, u.experience - exp_loss),
                       !.current_hp = Max(1, u.current_hp - hp_loss)]

\* final_win_rate without the clamp after the luck factor is added
final_win_rate_unclamped(attacker, defender) ==
    LET attacker_power == calculate_combat_power(attacker)
        defender_power == calculate_combat_power(defender)
        total == attacker_power + defender_power + 1
        base_win_rate == Min(95 * total, Max(5 * total, 100 * attacker_power))
        luck_factor == (attacker.luck - defender.luck) * total
    IN  base_win_rate + luck_factor

\* final_win_rate of calculate_battle_result, as a numerator over
\* 100 * (attacker_power + defender_power + 1):
\* power_ratio / (power_ratio + 1) = attacker_power / (attacker_power + defender_power + 1)
final_win_rate(attacker, defender) ==
    LET attacker_power == calculate_combat_power(attacker)
        defender_power == calculate_combat_power(defender)
        total == attacker_power + defender_power + 1
        base_win_rate == Min(95 * total, Max(5 * total, 100 * attacker_power))
        luck_factor == (attacker.luck - defender.luck) * total
    IN  Max(5 * total, Min(95 * total, base_win_rate + luck_factor))

\* BattleSystem.calculate_battle_result with draw d (percent)
calculate_battle_result(attacker, defender, d) ==
    LET attacker_power == calculate_combat_power(attacker)
        defender_power == calculate_combat_power(defender)
        total == attacker_power + defender_power + 1
        attacker_wins == d * total < final_win_rate(attacker, defender)
    IN  IF attacker_wins
        THEN [attacker_wins |-> TRUE,
              exp_reward |-> Max(10, defender_power \div 10),
              exp_loss |-> Max(5, attacker_power \div 20)]
        ELSE [attacker_wins |-> FALSE,
              exp_reward |-> Max(5, attacker_power \div 20),
              exp_loss |-> Max(10, defender_power \div 10)]

\* execute_pvp_battle not recording the loss of an attacker who is beaten
execute_pvp_battle_result_loss_unrecorded(attacker, defender, d) ==
    LET result == calculate_battle_result(attacker, defender, d)
    IN  IF result.attacker_wins
        THEN [attacker |-> [attacker EXCEPT
                                !.experience = @ + result.exp_reward,
                                !.wins = @ + 1],
              defender |-> [defender EXCEPT
                                !.experience = Max(0, @ - result.exp_loss),
                                !.losses = @ + 1]]
        ELSE [attacker |-> [attacker EXCEPT
                                !.experience = Max(0, @ - result.exp_loss)],
              defender |-> [defender EXCEPT
                                !.experience = @ + result.exp_reward,
                                !.wins = @ + 1]]

\* BattleSystem.execute_pvp_battle: the two records after the battle
execute_pvp_battle_result(attacker, defender, d) ==
    LET result == calculate_battle_result(attacker, defender, d)
    IN  IF result.attacker_wins
        THEN [attacker |-> [attacker EXCEPT
                                !.experience = @ + result.exp_reward,
                                !.wins = @ + 1],
              defender |-> [defender EXCEPT
                                !.experience = Max(0, @ - result.exp_loss),
                                !.losses = @ + 1]]
        ELSE [attacker |-> [attacker EXCEPT
                                !.experience = Max(0, @ - result.exp_loss),
                                !.losses = @ + 1],
              defender |-> [defender EXCEPT
                                !.experience = @ + result.exp_reward,
                                !.wins = @ + 1]]

---------------------------------------------------------------------------
(* systems/equipment_system.py: items, equipping, pills. *)

\* EQUIPMENT_QUALITY bonus in tenths, with the uniform(0.8, 1.2) factor in
\* tenths: the (quality, factor) draws explored
QualityDraws == { <<10, 8>>, <<12, 12>> }

\* the equipment types the exploration generates
ItemTypes == {"weapon", "accessory", "pill"}

\* EQUIPMENT_QUALITY: the bonus of the six qualities, in tenths
EQUIPMENT_QUALITY == <<10, 12, 15, 20, 30, 50>>

\* quality_weights of generate_equipment, in thousandths, one weight per
\* quality; the branches in the order the code tests them
quality_weights(user_level) ==
    IF user_level >= 5
    THEN <<200, 250, 250, 200, 80, 20>>
    ELSE IF user_level >= 8
         THEN <<100, 150, 250, 300, 150, 50>>
         ELSE <<400, 300, 200, 80, 15, 5>>

\* the bonuses random.choices can return: those of positive weight
drawable_qualities(user_level) ==
    { EQUIPMENT_QUALITY[i] :
        i \in { j \in DOMAIN EQUIPMENT_QUALITY : quality_weights(user_level)[j] > 0 } }

\* EquipmentSystem.generate_equipment(user_level, equipment_type): the items
\* the explored draws give
generate_equipment(user_level, equipment_type) ==
    { LET equipment_value == (user_level * 10 * q[1] * q[2]) \div 100
      IN  CASE equipment_type = "weapon" ->
                   [NoItem EXCEPT !.type = "weapon", !.attack = equipment_value]
            [] equipment_type = "armor" ->
                   [NoItem EXCEPT !.type = "armor", !.defense = equipment_value]
            [] equipment_type = "accessory" ->
                   [NoItem EXCEPT !.type = "accessory",
                                  !.hp = equipment_value * 2,
                                  !.spiritual_power = equipment_value]
            [] OTHER ->
                   [NoItem EXCEPT !.type = "pill",
                                  !.healing = equipment_value,
                                  !.exp_bonus = equipment_value \div 2]
      : q \in { r \in QualityDraws : r[1] \in drawable_qualities(user_level) } }

RECURSIVE SumOver(_, _)
\* sum of f[x] over the finite set S
SumOver(f, S) ==
    IF S = {} THEN 0
    ELSE LET x == CHOOSE y \in S : TRUE
         IN  f[x] + SumOver(f, S \ {x})

\* EquipmentSystem.calculate_equipment_effects
calculate_equipment_effects(u) ==
    [ attack_bonus |-> SumOver([s \in Slots |-> u.equipment[s].attack], Slots),
      defense_bonus |-> SumOver([s \in Slots |-> u.equipment[s].defense], Slots),
      hp_bonus |-> SumOver([s \in Slots |-> u.equipment[s].hp], Slots),
      spiritual_power_bonus |->
          SumOver([s \in Slots |-> u.equipment[s].spiritual_power], Slots) ]

\* EquipmentSystem.update_user_stats_from_equipment
update_user_stats_from_equipment(u) ==
    LET effects == calculate_equipment_effects(u)
        base_attack == u.strength * 2 + u.realm_level * 10
        base_defense == u.constitution + u.realm_level * 5
        base_hp == u.constitution * 10 + u.realm_level * 50
        hp == base_hp + effects.hp_bonus
    IN  [u EXCEPT !.attack_power = base_attack + effects.attack_bonus,
                  !.defense_power = base_defense + effects.defense_bonus,
                  !.max_hp = hp,
                  !.current_hp = Min(u.current_hp, hp)]

\* use_pill with the healing not capped at max_hp
use_pill_uncapped(u, pill) ==
    LET healed == IF pill.healing > 0
                  THEN [u EXCEPT !.current_hp = u.current_hp + pill.healing]
                  ELSE u
        fed == IF pill.exp_bonus > 0
               THEN [healed EXCEPT !.experience = @ + pill.exp_bonus]
               ELSE healed
    IN  IF pill.spiritual_power > 0
        THEN [fed EXCEPT !.spiritual_power =
                  Min(fed.spiritual_power + pill.spiritual_power,
                      fed.intelligence * 10)]
        ELSE fed

\* EquipmentSystem.use_pill
use_pill(u, pill) ==
    LET healed == IF pill.healing > 0
                  THEN [u EXCEPT !.current_hp =
                            Min(u.max_hp, u.current_hp + pill.healing)]
                  ELSE u
        fed == IF pill.exp_bonus > 0
               THEN [healed EXCEPT !.experience = @ + pill.exp_bonus]
               ELSE healed
    IN  IF pill.spiritual_power > 0
        THEN [fed EXCEPT !.spiritual_power =
                  Min(fed.spiritual_power + pill.spiritual_power,
                      fed.intelligence * 10)]
        ELSE fed

\* valid_slots of equip_item
valid_slots(equipment_type) ==
    CASE equipment_type = "weapon" -> "weapon_slot"
      [] equipment_type = "armor" -> "armor_slot"
      [] equipment_type = "accessory" -> "accessory_slot"
      [] OTHER -> "none"

\* equip_item dropping the item that was in the slot
equip_item_result_discarding(u, equipment) ==
    IF equipment.type = "pill"
    THEN use_pill(u, equipment)
    ELSE LET slot == valid_slots(equipment.type)
         IN  IF slot = "none"
             THEN u
             ELSE update_user_stats_from_equipment(
                      [u EXCEPT !.equipment[slot] = equipment])

\* EquipmentSystem.equip_item: the record after equipping (or using) the item
equip_item_result(u, equipment) ==
    IF equipment.type = "pill"
    THEN use_pill(u, equipment)
    ELSE LET slot == valid_slots(equipment.type)
         IN  IF slot = "none"
             THEN u
             ELSE LET stored == IF u.equipment[slot] # NoItem
                                THEN [u EXCEPT !.inventory =
                                          Append(@, u.equipment[slot])]
                                ELSE u
                  IN  update_user_stats_from_equipment(
                          [stored EXCEPT !.equipment[slot] = equipment])

---------------------------------------------------------------------------
(* systems/event_system.py: the excursion (adventure). *)

\* adventure_event_weights with 'fortunate' taking the whole base weight of a
\* disaster away
adventure_event_weights_no_disaster(u) ==
    LET lucky == "fortunate" \in u.personality_traits
        brave == "fearless" \in u.personality_traits
    IN  [ battle |-> 400 + (IF brave THEN 100 ELSE 0),
          treasure |-> 250 + (IF lucky THEN 100 ELSE 0),
          encounter |-> 200 + (IF lucky THEN 50 ELSE 0),
          cultivation |-> 100,
          disaster |-> 50 - (IF lucky THEN 50 ELSE 0) ]

\* event_weights of _generate_adventure_event, in thousandths
adventure_event_weights(u) ==
    LET lucky == "fortunate" \in u.personality_traits
        brave == "fearless" \in u.personality_traits
    IN  [ battle |-> 400 + (IF brave THEN 100 ELSE 0),
          treasure |-> 250 + (IF lucky THEN 100 ELSE 0),
          encounter |-> 200 + (IF lucky THEN 50 ELSE 0),
          cultivation |-> 100,
          disaster |-> 50 - (IF lucky THEN 30 ELSE 0) ]

NoAdventureEvent ==
    [type |-> "none", success |-> FALSE, reward_type |-> "none",
     reward_value |-> 0, exp_gain |-> 0, penalty_type |-> "none",
     penalty_value |-> 0]

\* the outcome of an event generator that raises: _generate_battle_event builds
\* BattleSystem with two of its three arguments, and the treasure found branch
\* of _generate_treasure_event does the same with EquipmentSystem (TypeError)
RaisedEvent == [NoAdventureEvent EXCEPT !.type = "raised"]

\* EventSystem._generate_battle_event
adventure_battle_event(u) == {RaisedEvent}

\* EventSystem._generate_treasure_event with draw d (percent):
\* success_rate = 0.6 + luck * 0.02
adventure_treasure_event(u, d) ==
    IF d < 60 + u.luck * 2
    THEN {RaisedEvent}
    ELSE {[NoAdventureEvent EXCEPT !.type = "treasure"]}

\* EventSystem._generate_encounter_event
adventure_encounter_event(u) ==
    { [NoAdventureEvent EXCEPT !.type = "encounter", !.reward_type = "exp",
                               !.reward_value = u.realm_level * 30],
      [NoAdventureEvent EXCEPT !.type = "encounter",
                               !.reward_type = "cultivation_points",
                               !.reward_value = 20],
      [NoAdventureEvent EXCEPT !.type = "encounter", !.reward_type = "exp",
                               !.reward_value = u.realm_level * 20],
      [NoAdventureEvent EXCEPT !.type = "encounter",
                               !.reward_type = "spiritual_power",
                               !.reward_value = 50] }

\* EventSystem._generate_cultivation_event
adventure_cultivation_event(u) ==
    { [NoAdventureEvent EXCEPT !.type = "cultivation",
                               !.exp_gain = u.realm_level * 25] }

\* EventSystem._generate_disaster_event
adventure_disaster_event(u) ==
    { [NoAdventureEvent EXCEPT !.type = "disaster", !.penalty_type = "exp",
                               !.penalty_value = u.experience \div 30],
      [NoAdventureEvent EXCEPT !.type = "disaster", !.penalty_type = "hp",
                               !.penalty_value = u.max_hp \div 5],
      [NoAdventureEvent EXCEPT !.type = "disaster",
                               !.penalty_type = "spiritual_power",
                               !.penalty_value = 30] }

\* EventSystem._generate_adventure_event: every event the draws can give
_generate_adventure_event(u) ==
    LET w == adventure_event_weights(u)
    IN  (IF w.battle > 0 THEN adventure_battle_event(u) ELSE {})
        \cup (IF w.treasure > 0
              THEN UNION { adventure_treasure_event(u, d) : d \in DrawPercents }
              ELSE {})
        \cup (IF w.encounter > 0 THEN adventure_encounter_event(u) ELSE {})
        \cup (IF w.cultivation > 0 THEN adventure_cultivation_event(u) ELSE {})
        \cup (IF w.disaster > 0 THEN adventure_disaster_event(u) ELSE {})

\* EventSystem._apply_event_effects
_apply_event_effects(u, event) ==
    CASE event.type = "encounter" /\ event.reward_type = "exp" ->
             [u EXCEPT !.experience = @ + event.reward_value]
      [] event.type = "encounter" /\ event.reward_type = "cultivation_points" ->
             [u EXCEPT !.cultivation_points = @ + event.reward_value]
      [] event.type = "encounter" /\ event.reward_type = "spiritual_power" ->
             [u EXCEPT !.spiritual_power =
                  Min(u.spiritual_power + event.reward_value, u.intelligence * 10)]
      [] event.type = "cultivation" ->
             [u EXCEPT !.experience = @ + event.exp_gain]
      [] event.type = "disaster" /\ event.penalty_type = "exp" ->
             [u EXCEPT !.experience = Max(0, u.experience - event.penalty_value)]
      [] event.type = "disaster" /\ event.penalty_type = "hp" ->
             [u EXCEPT !.current_hp = Max(1, u.current_hp - event.penalty_value)]
      [] event.type = "disaster" /\ event.penalty_type = "spiritual_power" ->
             [u EXCEPT !.spiritual_power =
                  Max(0, u.spiritual_power - event.penalty_value)]
      [] OTHER -> u

\* EventSystem.can_adventure at clock reading t
can_adventure(u, t) ==
    IF u.last_adventure_time = NoTime
    THEN TRUE
    ELSE t >= u.last_adventure_time + AdventureCooldown

\* EventSystem.perform_adventure once the event is generated
perform_adventure(u, event, t) ==
    [_apply_event_effects(u, event) EXCEPT !.last_adventure_time = t]

---------------------------------------------------------------------------
(* systems/task_system.py: task rewards. *)

\* the tasks of get_daily_tasks and get_weekly_tasks with their rewards;
\* task_progress is keyed by dated keys, never by these ids, so completed
\* keeps the value written here
all_tasks ==
    { [id |-> "daily_cultivation", completed |-> FALSE, exp |-> 100,
       spiritual_power |-> 50, cultivation_points |-> 0, special_item |-> FALSE],
      [id |-> "daily_battle", completed |-> FALSE, exp |-> 150,
       spiritual_power |-> 0, cultivation_points |-> 5, special_item |-> FALSE],
      [id |-> "daily_login", completed |-> TRUE, exp |-> 50,
       spiritual_power |-> 30, cultivation_points |-> 0, special_item |-> FALSE],
      [id |-> "weekly_cultivation", completed |-> FALSE, exp |-> 500,
       spiritual_power |-> 0, cultivation_points |-> 0, special_item |-> TRUE],
      [id |-> "weekly_battle", completed |-> FALSE, exp |-> 800,
       spiritual_power |-> 0, cultivation_points |-> 0, special_item |-> FALSE],
      [id |-> "weekly_breakthrough", completed |-> FALSE, exp |-> 0,
       spiritual_power |-> 200, cultivation_points |-> 50, special_item |-> FALSE] }

\* datetime.now().strftime("%Y-%m-%d") at clock reading t: the day, counted
\* from the day of clock reading 0
today(t) == ToString(t \div (24 * 60 * 60))

\* datetime.now().strftime("%Y-W%U") at clock reading t: the week, counted
\* from the week that starts with the day of clock reading 0
this_week(t) == "W" \o ToString((t \div (24 * 60 * 60)) \div 7)

\* the targets update_task_progress passes for the entries of each task
task_targets ==
    [ daily_cultivation |-> 1, weekly_cultivation |-> 10,
      daily_battle |-> 1, weekly_battle |-> 5,
      weekly_breakthrough |-> 3 ]

\* _update_single_task_progress adding the increment without the target
\* as its ceiling
_update_single_task_progress_unbounded(u, task_key, increment, target) ==
    LET entries == [key \in DOMAIN u.task_progress \cup {task_key} |->
                       IF key \in DOMAIN u.task_progress
                       THEN u.task_progress[key]
                       ELSE [progress |-> 0, completed |-> FALSE]]
        task_data == entries[task_key]
        progress == task_data.progress + increment
    IN  IF task_data.completed
        THEN [u EXCEPT !.task_progress = entries]
        ELSE [u EXCEPT !.task_progress =
                  [entries EXCEPT ![task_key] =
                      [progress |-> progress,
                       completed |-> progress >= target]]]

\* TaskSystem._update_single_task_progress
_update_single_task_progress(u, task_key, increment, target) ==
    LET entries == [key \in DOMAIN u.task_progress \cup {task_key} |->
                       IF key \in DOMAIN u.task_progress
                       THEN u.task_progress[key]
                       ELSE [progress |-> 0, completed |-> FALSE]]
        task_data == entries[task_key]
        progress == Min(task_data.progress + increment, target)
    IN  IF task_data.completed
        THEN [u EXCEPT !.task_progress = entries]
        ELSE [u EXCEPT !.task_progress =
                  [entries EXCEPT ![task_key] =
                      [progress |-> progress,
                       completed |-> progress >= target]]]

\* TaskSystem.update_task_progress at clock reading t: the record after it
update_task_progress_result(u, task_type, increment, t) ==
    CASE task_type = "cultivation" ->
             _update_single_task_progress(
                 _update_single_task_progress(
                     u, "daily_cultivation_" \o today(t), increment,
                     task_targets.daily_cultivation),
                 "weekly_cultivation_" \o this_week(t), increment,
                 task_targets.weekly_cultivation)
      [] task_type = "battle" ->
             _update_single_task_progress(
                 _update_single_task_progress(
                     u, "daily_battle_" \o today(t), increment,
                     task_targets.daily_battle),
                 "weekly_battle_" \o this_week(t), increment,
                 task_targets.weekly_battle)
      [] task_type = "breakthrough" ->
             _update_single_task_progress(
                 u, "weekly_breakthrough_" \o this_week(t), increment,
                 task_targets.weekly_breakthrough)
      [] OTHER -> u

\* get_daily_tasks and get_weekly_tasks: the tasks with the completed flag of
\* the task_progress entry whose key is the task id, where there is one
get_tasks(u) ==
    { IF task.id \in DOMAIN u.task_progress
      THEN [task EXCEPT !.completed = u.task_progress[task.id].completed]
      ELSE task : task \in all_tasks }

\* the task ids a claim is tried with: a completed task, an uncompleted one
\* and an id no task has
TaskIds == {"daily_login", "daily_cultivation", "unknown"}

\* the pill a special_item reward puts in the inventory
special_item_pill == [NoItem EXCEPT !.type = "pill", !.healing = 100,
                                    !.exp_bonus = 50]

\* claim_succeeds without the look at claimed_rewards
claim_succeeds_unrecorded(u, task_id) ==
    \E t \in get_tasks(u) : t.id = task_id /\ t.completed

\* TaskSystem.claim_task_reward: whether the claim succeeds
claim_succeeds(u, task_id) ==
    /\ \E t \in get_tasks(u) : t.id = task_id /\ t.completed
    /\ task_id \notin u.claimed_rewards

\* claim_task_reward_result adding the spiritual power without the cap
claim_task_reward_result_uncapped(u, task_id) ==
    LET task == CHOOSE t \in all_tasks : t.id = task_id
        paid == IF task.exp > 0
                THEN [u EXCEPT !.experience = @ + task.exp]
                ELSE u
        powered == IF task.spiritual_power > 0
                   THEN [paid EXCEPT !.spiritual_power =
                             paid.spiritual_power + task.spiritual_power]
                   ELSE paid
        pointed == IF task.cultivation_points > 0
                   THEN [powered EXCEPT !.cultivation_points =
                             @ + task.cultivation_points]
                   ELSE powered
        given == IF task.special_item
                 THEN [pointed EXCEPT !.inventory = Append(@, special_item_pill)]
                 ELSE pointed
    IN  [given EXCEPT !.claimed_rewards = @ \cup {task_id}]

\* TaskSystem.claim_task_reward: the record after a successful claim
claim_task_reward_result(u, task_id) ==
    LET task == CHOOSE t \in all_tasks : t.id = task_id
        paid == IF task.exp > 0
                THEN [u EXCEPT !.experience = @ + task.exp]
                ELSE u
        powered == IF task.spiritual_power > 0
                   THEN [paid EXCEPT !.spiritual_power =
                             Min(paid.spiritual_power + task.spiritual_power,
                                 paid.intelligence * 10)]
                   ELSE paid
        pointed == IF task.cultivation_points > 0
                   THEN [powered EXCEPT !.cultivation_points =
                             @ + task.cultivation_points]
                   ELSE powered
        given == IF task.special_item
                 THEN [pointed EXCEPT !.inventory = Append(@, special_item_pill)]
                 ELSE pointed
    IN  [given EXCEPT !.claimed_rewards = @ \cup {task_id}]

---------------------------------------------------------------------------
(* systems/sect_system.py: sects and their members. *)

\* SectSystem._create_default_sects: requirements.min_realm and members of
\* each sect
_create_default_sects ==
    [ qingyun |-> [min_realm |-> 1, members |-> {}],
      tianmo |-> [min_realm |-> 2, members |-> {}],
      wudang |-> [min_realm |-> 1, members |-> {}],
      emei |-> [min_realm |-> 1, members |-> {}] ]

\* join_sect_allowed without the look at the sect_id of the character
join_sect_allowed_again(u, sect_id, sects_data) ==
    /\ sect_id \in DOMAIN sects_data
    /\ u.realm_level >= sects_data[sect_id].min_realm

\* SectSystem.join_sect: whether the character u joins the sect
join_sect_allowed(u, sect_id, sects_data) ==
    /\ u.sect_id = NoSect
    /\ sect_id \in DOMAIN sects_data
    /\ u.realm_level >= sects_data[sect_id].min_realm

\* SectSystem.join_sect: the sects after the character with id user_id joined
join_sect_members(sects_data, sect_id, user_id) ==
    [sects_data EXCEPT ![sect_id].members = @ \cup {user_id}]

\* SectSystem.leave_sect: the sects after the character u with id user_id left
leave_sect_members(sects_data, u, user_id) ==
    IF u.sect_id \in DOMAIN sects_data
    THEN [sects_data EXCEPT ![u.sect_id].members = @ \ {user_id}]
    ELSE sects_data

---------------------------------------------------------------------------
(* systems/cultivation_system.py: the cultivation gate and the cultivation. *)

\* can_cultivate opening the gate only after the interval is exceeded
can_cultivate_strict(u, t) ==
    IF u.last_cultivation_time = NoTime
    THEN TRUE
    ELSE t > u.last_cultivation_time + get_cooldown_time("cultivation")

\* CultivationSystem.can_cultivate at clock reading t
can_cultivate(u, t) ==
    IF u.last_cultivation_time = NoTime
    THEN TRUE
    ELSE t >= u.last_cultivation_time + get_cooldown_time("cultivation")

\* CultivationSystem.get_cultivation_cooldown at clock reading t: the seconds
\* left, 0 standing for the answer "0分钟"
get_cultivation_cooldown(u, t) ==
    IF u.last_cultivation_time = NoTime
    THEN 0
    ELSE LET next_cultivation_time ==
                 u.last_cultivation_time + get_cooldown_time("cultivation")
             remaining == next_cultivation_time - t
         IN  IF remaining <= 0 THEN 0 ELSE remaining

\* seconds the clock may advance between the read of can_cultivate and the
\* read of get_cultivation_cooldown in one cultivate command
ReadDelays == {0, 1}

\* what a rejected cultivate command reports: "cooldown" with a positive time
\* left, "cooldown_zero" with "0分钟"
CooldownReplies == {"cooldown", "cooldown_zero"}

\* perform_cultivation clearing the breakthrough attempt counter
perform_cultivation_clearing(u, rf10, event, t) ==
    LET exp_gained == calculate_cultivation_exp(u, rf10)
        gained == [u EXCEPT !.experience = @ + exp_gained,
                            !.last_cultivation_time = t,
                            !.breakthrough_attempts = 0]
    IN  apply_event_rewards(gained, event)

\* perform_cultivation with a gain that depends on the second the clock shows
perform_cultivation_by_the_clock(u, rf10, event, t) ==
    LET exp_gained == calculate_cultivation_exp(u, rf10) + (t % 2)
        gained == [u EXCEPT !.experience = @ + exp_gained,
                            !.last_cultivation_time = t]
    IN  apply_event_rewards(gained, event)

\* perform_cultivation leaving last_cultivation_time as it was
perform_cultivation_unstamped(u, rf10, event, t) ==
    LET exp_gained == calculate_cultivation_exp(u, rf10)
        gained == [u EXCEPT !.experience = @ + exp_gained]
    IN  apply_event_rewards(gained, event)

\* CultivationSystem.perform_cultivation: the record after the cultivation
perform_cultivation(u, rf10, event, t) ==
    LET exp_gained == calculate_cultivation_exp(u, rf10)
        gained == [u EXCEPT !.experience = @ + exp_gained,
                            !.last_cultivation_time = t]
    IN  apply_event_rewards(gained, event)

---------------------------------------------------------------------------
(* main.py: the command handlers. *)

\* XiuxianPlugin.cultivate
cultivate ==
    IF ~can_cultivate(user, now)
    THEN /\ \E delay \in ReadDelays :
                reply' = (IF get_cultivation_cooldown(user, now + delay) = 0
                          THEN "cooldown_zero" ELSE "cooldown")
         /\ UNCHANGED <<config, pc, sects, user, rival, server, now, ops>>
    ELSE \E rf10 \in RandomFactors, event \in generate_random_event(user) :
            LET after == perform_cultivation(user, rf10, event, now)
            IN  /\ user' = after
                /\ server' = [server EXCEPT !.total_cultivations = @ + 1]
                /\ reply' = "cultivated"
                /\ UNCHANGED <<config, pc, sects, rival, now, ops>>

\* XiuxianPlugin.breakthrough
breakthrough ==
    IF ~can_breakthrough(user)
    THEN /\ reply' = "insufficient"
         /\ UNCHANGED <<config, pc, sects, user, rival, server, now, ops>>
    ELSE \E d \in DrawPercents, inc \in StatRolls :
            LET after == attempt_breakthrough(user, d, inc, now)
            IN  /\ user' = after
                /\ reply' = (IF breakthrough_draw_succeeds(user, d)
                             THEN "breakthrough" ELSE "failed")
                /\ UNCHANGED <<config, pc, sects, rival, server, now, ops>>

\* XiuxianPlugin.adventure
adventure ==
    IF ~can_adventure(user, now)
    THEN /\ reply' = "adventure_cooldown"
         /\ UNCHANGED <<config, pc, sects, user, rival, server, now, ops>>
    ELSE \E event \in _generate_adventure_event(user) :
            IF event = RaisedEvent
            THEN /\ reply' = "raised"
                 /\ UNCHANGED <<config, pc, sects, user, rival, server, now, ops>>
            ELSE /\ ops < MaxOps
                 /\ user' = perform_adventure(user, event, now)
                 /\ reply' = "adventured"
                 /\ ops' = ops + 1
                 /\ UNCHANGED <<config, pc, sects, rival, server, now>>

\* BattleSystem.fight_monster: what one fight does
fight_monster_step ==
    /\ \E monster_power \in generate_monster(user.realm_level),
          d \in DrawPercents :
            /\ user' = fight_monster_result(user, monster_power, d)
            /\ reply' = (IF monster_draw_wins(user, monster_power, d)
                         THEN "victory" ELSE "defeat")
    /\ UNCHANGED <<config, pc, sects, rival, server, now>>

\* BattleSystem.fight_monster, within the budget of operations
fight_monster ==
    /\ ops < MaxOps
    /\ fight_monster_step
    /\ ops' = ops + 1

\* BattleSystem.fight_monster, fight after fight while the experience is at
\* or below MaxFightExp
fight_monster_repeated ==
    /\ user.experience <= MaxFightExp
    /\ fight_monster_step
    /\ UNCHANGED ops

\* BattleSystem.execute_pvp_battle, the user attacking the rival: what one
\* battle does
execute_pvp_battle_step ==
    /\ \E d \in DrawPercents :
          LET after == execute_pvp_battle_result(user, rival, d)
          IN  /\ user' = after.attacker
              /\ rival' = after.defender
              /\ reply' = (IF after.attacker.wins > user.wins
                           THEN "attacker_wins" ELSE "defender_wins")
    /\ server' = [server EXCEPT !.total_battles = @ + 1]
    /\ UNCHANGED <<config, pc, sects, now>>

\* BattleSystem.execute_pvp_battle, the rival attacking the user: what one
\* battle does
execute_pvp_battle_defending_step ==
    /\ \E d \in DrawPercents :
          LET after == execute_pvp_battle_result(rival, user, d)
          IN  /\ rival' = after.attacker
              /\ user' = after.defender
              /\ reply' = (IF after.attacker.wins > rival.wins
                           THEN "attacker_wins" ELSE "defender_wins")
    /\ server' = [server EXCEPT !.total_battles = @ + 1]
    /\ UNCHANGED <<config, pc, sects, now>>

\* the user attacks the rival, within the budget of operations
execute_pvp_battle ==
    /\ ops < MaxOps
    /\ execute_pvp_battle_step
    /\ ops' = ops + 1

\* the rival attacks the user, within the budget of operations
execute_pvp_battle_defending ==
    /\ ops < MaxOps
    /\ execute_pvp_battle_defending_step
    /\ ops' = ops + 1

\* the user attacks the rival, battle after battle up to MaxBattles
execute_pvp_battle_repeated ==
    /\ server.total_battles < MaxBattles
    /\ execute_pvp_battle_step
    /\ UNCHANGED ops

\* the rival attacks the user, battle after battle up to MaxBattles
execute_pvp_battle_defending_repeated ==
    /\ server.total_battles < MaxBattles
    /\ execute_pvp_battle_defending_step
    /\ UNCHANGED ops

\* EquipmentSystem.equip_item with a generated item: what one call does
equip_item_step ==
    /\ \E equipment_type \in ItemTypes :
          \E equipment \in generate_equipment(user.realm_level, equipment_type) :
             /\ user' = equip_item_result(user, equipment)
             /\ reply' = (IF equipment.type = "pill" THEN "used" ELSE "equipped")
    /\ UNCHANGED <<config, pc, sects, rival, server, now>>

\* EquipmentSystem.equip_item, within the budget of operations
equip_item ==
    /\ ops < MaxOps
    /\ equip_item_step
    /\ ops' = ops + 1

\* EquipmentSystem.equip_item, item after item up to MaxEquips
equip_item_repeated ==
    /\ ops < MaxEquips
    /\ equip_item_step
    /\ ops' = ops + 1

\* TaskSystem.claim_task_reward
claim_task_reward ==
    \E task_id \in TaskIds :
        IF claim_succeeds(user, task_id)
        THEN /\ ops < MaxOps
             /\ user' = claim_task_reward_result(user, task_id)
             /\ reply' = "claimed"
             /\ ops' = ops + 1
             /\ UNCHANGED <<config, pc, sects, rival, server, now>>
        ELSE /\ reply' = "claim_refused"
             /\ UNCHANGED <<config, pc, sects, user, rival, server, now, ops>>

\* seconds one advance of the clock adds: half the cultivation cooldown
TickStep == (CultivationCooldownMinutes * 60) \div 2

\* the clock advances; no command runs, so nothing is reported
Tick ==
    /\ now + TickStep <= MaxTicks * TickStep
    /\ now' = now + TickStep
    /\ reply' = "none"
    /\ UNCHANGED <<config, pc, sects, user, rival, server, ops>>

---------------------------------------------------------------------------

Init ==
    /\ \E traits \in TraitChoices : user = NewUser(traits)
    /\ rival = NewUser({"calm", "curious", "cautious"})
    /\ server = [total_users |-> 2, total_cultivations |-> 0, total_battles |-> 0]
    /\ now = 0
    /\ reply = "none"
    /\ config = default_config
    /\ ops = 0
    /\ pc = [h \in Handlers |-> "idle"]
    /\ sects = NoSects

Next ==
    \/ Tick
    \/ cultivate
    \/ breakthrough
    \/ adventure
    \/ fight_monster
    \/ execute_pvp_battle
    \/ execute_pvp_battle_defending
    \/ equip_item
    \/ claim_task_reward

Spec == Init /\ [][Next]_vars

---------------------------------------------------------------------------
(* The cultivation gate around its boundary: the cultivate command alone,   *)
(* with the clock read within GateSlack seconds of each multiple of the     *)
(* cooldown up to GateRounds cooldowns.                                     *)

GateReadings ==
    { t \in { k * (CultivationCooldownMinutes * 60) + e :
                 k \in 0..GateRounds, e \in (0 - GateSlack)..GateSlack } : t >= 0 }

\* the clock advances to a later reading; no command runs
GateTick ==
    /\ \E t \in GateReadings : t > now /\ now' = t
    /\ reply' = "none"
    /\ UNCHANGED <<config, pc, sects, user, rival, server, ops>>

NextGate ==
    \/ GateTick
    \/ cultivate

SpecGate == Init /\ [][NextGate]_vars

---------------------------------------------------------------------------
(* Long runs of monster fights, with breakthroughs and items: hit points    *)
(* and experience are driven to their floors and caps.                      *)

\* XiuxianPlugin.breakthrough while the attempt counter is below MaxFightAttempts
breakthrough_repeated ==
    /\ user.breakthrough_attempts < MaxFightAttempts
    /\ breakthrough

NextFights ==
    \/ fight_monster_repeated
    \/ breakthrough_repeated
    \/ equip_item

SpecFights == Init /\ [][NextFights]_vars

---------------------------------------------------------------------------
(* The breakthrough success rate over configured base rates, trait sets and *)
(* attempt counts: a tier-1 character with experience well over the         *)
(* threshold attempts the breakthrough again and again.                     *)

\* the configured breakthrough_success_rate values explored, in percent: the
\* ends of the range validate_config names, the default, and values above
\* the 0.95 cap
BaseRates == {10, 70, 90, 96, 99}

\* the trait triples explored: none, one or both of the traits the rate reads
RateTraitChoices ==
    { {"calm", "curious", "cautious"},
      {"resolute", "calm", "curious"},
      {"fortunate", "calm", "curious"},
      {"fortunate", "resolute", "diligent"} }

InitRate ==
    /\ \E traits \in RateTraitChoices :
          user = [NewUser(traits) EXCEPT !.experience = RateStartExp]
    /\ rival = NewUser({"calm", "curious", "cautious"})
    /\ server = [total_users |-> 2, total_cultivations |-> 0, total_battles |-> 0]
    /\ now = 0
    /\ reply = "none"
    /\ \E rate \in BaseRates : config = [breakthrough_success_rate |-> rate]
    /\ ops = 0
    /\ pc = [h \in Handlers |-> "idle"]
    /\ sects = NoSects

\* XiuxianPlugin.breakthrough while the attempt counter is below MaxRateAttempts
breakthrough_again ==
    /\ user.breakthrough_attempts < MaxRateAttempts
    /\ breakthrough

NextRate ==
    \/ breakthrough_again

SpecRate == InitRate /\ [][NextRate]_vars

---------------------------------------------------------------------------
(* PvP battles between characters of chosen combat power, luck and          *)
(* experience: powers from 0 to thousands, luck differences beyond the      *)
(* width of the clamp.                                                      *)

PvpStats == {0, 10}        \* strength, agility, intelligence, constitution
PvpAttacks == {0, 5000}    \* attack_power
PvpLucks == {0, 10, 120}   \* luck
PvpExps == {0, 40}         \* experience

\* a character with the four base stats, attack_power, luck and experience given
Fighter(stat, attack, luck, exp) ==
    [NewUser({"calm", "curious", "cautious"}) EXCEPT
        !.strength = stat, !.agility = stat, !.intelligence = stat,
        !.constitution = stat, !.attack_power = attack, !.luck = luck,
        !.spiritual_power = Min(@, stat * 10), !.experience = exp]

Fighters ==
    { Fighter(stat, attack, luck, exp) :
        stat \in PvpStats, attack \in PvpAttacks, luck \in PvpLucks,
        exp \in PvpExps }

InitPvP ==
    /\ user \in Fighters
    /\ rival \in Fighters
    /\ server = [total_users |-> 2, total_cultivations |-> 0, total_battles |-> 0]
    /\ now = 0
    /\ reply = "none"
    /\ config = default_config
    /\ ops = 0
    /\ pc = [h \in Handlers |-> "idle"]
    /\ sects = NoSects

NextPvP ==
    \/ execute_pvp_battle_repeated
    \/ execute_pvp_battle_defending_repeated

SpecPvP == InitPvP /\ [][NextPvP]_vars

---------------------------------------------------------------------------
(* Monster fights of characters of tier 1 and tier 2, bare or wielding the  *)
(* strongest weapon their tier can be given.                                *)

\* generate_equipment at its upper end: quality bonus 5.0, factor 1.2
TopWeapon(user_level) ==
    [NoItem EXCEPT !.type = "weapon", !.attack = (user_level * 10 * 50 * 12) \div 100]

\* the character with the strongest weapon of its tier equipped
Armed(u) ==
    update_user_stats_from_equipment(
        [u EXCEPT !.equipment["weapon_slot"] = TopWeapon(u.realm_level)])

MonsterFighters ==
    LET novices == { NewUser(traits) : traits \in TraitChoices }
        adepts == { breakthrough_success(u, inc) : u \in novices, inc \in StatRolls }
        bare == novices \cup adepts
    IN  bare \cup { Armed(u) : u \in bare }

InitMonster ==
    /\ user \in MonsterFighters
    /\ rival = NewUser({"calm", "curious", "cautious"})
    /\ server = [total_users |-> 2, total_cultivations |-> 0, total_battles |-> 0]
    /\ now = 0
    /\ reply = "none"
    /\ config = default_config
    /\ ops = 0
    /\ pc = [h \in Handlers |-> "idle"]
    /\ sects = NoSects

NextMonster ==
    \/ fight_monster_repeated

SpecMonster == InitMonster /\ [][NextMonster]_vars

---------------------------------------------------------------------------
(* Equipment generated for characters of every tier of the realm table.     *)

RECURSIVE Ascended(_, _, _)
\* the character u after breakthroughs up to tier realm_level, each with the
\* stat increases inc
Ascended(u, realm_level, inc) ==
    IF u.realm_level >= realm_level
    THEN u
    ELSE Ascended(breakthrough_success(u, inc), realm_level, inc)

InitQuality ==
    /\ user \in { Ascended(NewUser(traits), r.level, inc) :
                    traits \in TraitChoices, r \in REALMS, inc \in StatRolls }
    /\ rival = NewUser({"calm", "curious", "cautious"})
    /\ server = [total_users |-> 2, total_cultivations |-> 0, total_battles |-> 0]
    /\ now = 0
    /\ reply = "none"
    /\ config = default_config
    /\ ops = 0
    /\ pc = [h \in Handlers |-> "idle"]
    /\ sects = NoSects

NextQuality ==
    \/ equip_item

SpecQuality == InitQuality /\ [][NextQuality]_vars

---------------------------------------------------------------------------
(* Cultivation and excursions of characters with and without the traits     *)
(* that shift the event weights.                                            *)

\* trait triples of random.sample: neither trait, each alone, both
EventTraitChoices ==
    { {"calm", "curious", "cautious"},
      {"fortunate", "resolute", "diligent"},
      {"fearless", "calm", "wise"},
      {"fortunate", "fearless", "kind"} }

InitEvents ==
    /\ user \in { NewUser(traits) : traits \in EventTraitChoices }
    /\ rival = NewUser({"calm", "curious", "cautious"})
    /\ server = [total_users |-> 2, total_cultivations |-> 0, total_battles |-> 0]
    /\ now = 0
    /\ reply = "none"
    /\ config = default_config
    /\ ops = 0
    /\ pc = [h \in Handlers |-> "idle"]
    /\ sects = NoSects

NextEvents ==
    \/ cultivate
    \/ adventure
    \/ Tick

SpecEvents == InitEvents /\ [][NextEvents]_vars

---------------------------------------------------------------------------
(* Items equipped one after another, so that occupied slots are equipped    *)
(* again.                                                                   *)

NextEquip ==
    \/ equip_item_repeated

SpecEquip == Init /\ [][NextEquip]_vars

---------------------------------------------------------------------------
(* Characters of every tier of the realm table at the threshold of their    *)
(* tier, the highest tier included.                                         *)

InitSummit ==
    /\ user \in { [Ascended(NewUser(traits), r.level, inc) EXCEPT
                        !.experience = r.max_exp - short] :
                    traits \in TraitChoices, r \in REALMS, inc \in StatRolls,
                    short \in {0, 1} }
    /\ rival = NewUser({"calm", "curious", "cautious"})
    /\ server = [total_users |-> 2, total_cultivations |-> 0, total_battles |-> 0]
    /\ now = 0
    /\ reply = "none"
    /\ config = default_config
    /\ ops = 0
    /\ pc = [h \in Handlers |-> "idle"]
    /\ sects = NoSects

NextSummit ==
    \/ cultivate
    \/ breakthrough_again

SpecSummit == InitSummit /\ [][NextSummit]_vars

---------------------------------------------------------------------------
(* Two cultivate commands for the same character running as concurrent      *)
(* handlers.  A handler runs without interruption from one suspension point  *)
(* to the next: up to the await of the narrative, from there to the save,   *)
(* and from the save to its end.  Both work on the one UserProfile object   *)
(* that get_user_data returns from _user_cache.                             *)

\* XiuxianPlugin.cultivate of handler h from its start to the await of
\* generate_cultivation_story, or to its end when the gate rejects
cultivate_begin(h) ==
    /\ pc[h] = "idle"
    /\ IF ~can_cultivate(user, now)
       THEN /\ \E delay \in ReadDelays :
                   reply' = (IF get_cultivation_cooldown(user, now + delay) = 0
                             THEN "cooldown_zero" ELSE "cooldown")
            /\ UNCHANGED <<config, pc, sects, user, rival, server, now, ops>>
       ELSE /\ \E rf10 \in RandomFactors, event \in generate_random_event(user) :
                   user' = perform_cultivation(user, rf10, event, now)
            /\ server' = [server EXCEPT !.total_cultivations = @ + 1]
            /\ pc' = [pc EXCEPT ![h] = "narrating"]
            /\ reply' = "none"
            /\ UNCHANGED <<config, sects, rival, now, ops>>

\* handler h resumes with the narrative and calls save_user_data, which puts
\* the same object back in _user_cache and schedules the write of the file
cultivate_narrated(h) ==
    /\ pc[h] = "narrating"
    /\ pc' = [pc EXCEPT ![h] = "saving"]
    /\ reply' = "none"
    /\ UNCHANGED <<config, sects, user, rival, server, now, ops>>

\* handler h reports the narrative and ends
cultivate_saved(h) ==
    /\ pc[h] = "saving"
    /\ pc' = [pc EXCEPT ![h] = "idle"]
    /\ reply' = "cultivated"
    /\ UNCHANGED <<config, sects, user, rival, server, now, ops>>

NextRace ==
    \/ \E h \in Handlers : cultivate_begin(h)
    \/ \E h \in Handlers : cultivate_narrated(h)
    \/ \E h \in Handlers : cultivate_saved(h)
    \/ Tick

SpecRace == Init /\ [][NextRace]_vars

---------------------------------------------------------------------------
(* The climb from one tier to the next, without end: the character           *)
(* cultivates whenever the gate allows and attempts the breakthrough         *)
(* whenever can_breakthrough holds.  The commands read the clock only        *)
(* through its distance to last_cultivation_time (can_cultivate), the        *)
(* attempt counter only through min(0.1, attempts * 0.02)                    *)
(* (calculate_breakthrough_success_rate), and never read                     *)
(* total_cultivations.  The state is therefore kept as the commands read     *)
(* it: last_cultivation_time relative to a clock standing at ProgressEpoch,  *)
(* the counters at the value from which the commands no longer tell them     *)
(* apart.  An endless run of failures then stays among finitely many        *)
(* states, and only the fairness of the draws can end it.  Of the events of  *)
(* a cultivation, those that leave the experience alone are drawn as no      *)
(* event at all.                                                             *)

\* the clock reading every time is kept relative to
ProgressEpoch == CultivationCooldownMinutes * 60

\* a time x of the record read at clock t, as the same distance before
\* ProgressEpoch; distances of a cooldown and more are one to can_cultivate
RelativeTime(x, t) ==
    IF x = NoTime THEN NoTime ELSE ProgressEpoch - Min(ProgressEpoch, t - x)

\* the record u read at clock t, as the commands read it at ProgressEpoch
AsRead(u, t) ==
    [u EXCEPT !.last_cultivation_time = RelativeTime(@, t),
              !.breakthrough_attempts = Min(@, 10 \div 2)]

\* the events of generate_random_event that reward or take experience, and
\* no event
experience_events(u) ==
    { event \in generate_random_event(u) :
         /\ event.reward_type \in {"none", "exp"}
         /\ event.penalty_type \in {"none", "exp"} }

\* the tiers a climb starts from
ProgressTiers == 1..MaxProgressTier

\* XiuxianPlugin.cultivate when the gate allows and the experience is below
\* the threshold, with random factor rf10 and the event drawn
cultivate_when_allowed(rf10, event) ==
    /\ user.realm_level \in ProgressTiers
    /\ ~can_breakthrough(user)
    /\ can_cultivate(user, now)
    /\ event \in experience_events(user)
    /\ user' = AsRead(perform_cultivation(user, rf10, event, now), now)
    /\ server' = [server EXCEPT !.total_cultivations = Min(@ + 1, 1)]
    /\ reply' = "cultivated"
    /\ UNCHANGED <<config, pc, sects, rival, now, ops>>

\* XiuxianPlugin.breakthrough when can_breakthrough holds, with draw d
breakthrough_when_ready(d) ==
    /\ user.realm_level \in ProgressTiers
    /\ can_breakthrough(user)
    /\ \E inc \in StatRolls :
          user' = AsRead(attempt_breakthrough(user, d, inc, now), now)
    /\ reply' = (IF breakthrough_draw_succeeds(user, d)
                 THEN "breakthrough" ELSE "failed")
    /\ UNCHANGED <<config, pc, sects, rival, server, now, ops>>

\* the clock advances by a cooldown while the gate is closed
gate_wait ==
    /\ user.realm_level \in ProgressTiers
    /\ ~can_cultivate(user, now)
    /\ user' = AsRead(user, now + get_cooldown_time("cultivation"))
    /\ reply' = "none"
    /\ UNCHANGED <<config, pc, sects, rival, server, now, ops>>

InitProgress ==
    /\ user \in { Ascended(NewUser(traits), t, inc) :
                    traits \in TraitChoices, t \in ProgressTiers,
                    inc \in StatRolls }
    /\ rival = NewUser({"calm", "curious", "cautious"})
    /\ server = [total_users |-> 2, total_cultivations |-> 0, total_battles |-> 0]
    /\ now = ProgressEpoch
    /\ reply = "none"
    /\ config = default_config
    /\ ops = 0
    /\ pc = [h \in Handlers |-> "idle"]
    /\ sects = NoSects

NextProgress ==
    \/ \E rf10 \in RandomFactors, event \in experience_events(user) :
          cultivate_when_allowed(rf10, event)
    \/ \E d \in DrawPercents : breakthrough_when_ready(d)
    \/ gate_wait

\* the least experience a cultivation with the highest random factor and no
\* event adds
LuckyGain == calculate_cultivation_exp(NewUser({}), 14)

\* the experience below the threshold of the tiers explored, in bands no
\* wider than LuckyGain
ProgressBands ==
    0 .. ((CHOOSE m \in { r.max_exp : r \in REALMS } :
              \E r \in REALMS : r.level = MaxProgressTier /\ r.max_exp = m)
          \div LuckyGain)

\* the commands are issued and the clock advances (weak fairness of the
\* step); the draws are fair: a cultivation with the highest random factor
\* and no event, offered again and again in a band of experience, is
\* eventually taken there, and so is the lowest draw of random.random() in a
\* breakthrough
SpecProgress ==
    /\ InitProgress
    /\ [][NextProgress]_vars
    /\ WF_vars(NextProgress)
    /\ \A band \in ProgressBands :
          SF_vars(/\ user.experience \div LuckyGain = band
                  /\ cultivate_when_allowed(14, NoEvent))
    /\ SF_vars(breakthrough_when_ready(0))

---------------------------------------------------------------------------
(* The task system over some days: progress is recorded for every task      *)
(* type, rewards are claimed again and again, and the clock advances a day  *)
(* at a time from the last day of a week into the next week.                *)

\* the task types update_task_progress is called with: the three it knows
\* and one it does not
TaskTypes == {"cultivation", "battle", "breakthrough", "adventure"}

\* the increments explored: both step over the target of some task
Increments == {2, 5}

\* TaskSystem.update_task_progress
update_task_progress ==
    \E task_type \in TaskTypes, increment \in Increments :
        /\ user' = update_task_progress_result(user, task_type, increment, now)
        /\ reply' = "progress_recorded"
        /\ UNCHANGED <<config, pc, sects, rival, server, now, ops>>

\* TaskSystem.claim_task_reward, as often as it is called
claim_task_reward_repeated ==
    \E task_id \in TaskIds :
        IF claim_succeeds(user, task_id)
        THEN /\ user' = claim_task_reward_result(user, task_id)
             /\ reply' = "claimed"
             /\ UNCHANGED <<config, pc, sects, rival, server, now, ops>>
        ELSE /\ reply' = "claim_refused"
             /\ UNCHANGED <<config, pc, sects, user, rival, server, now, ops>>

\* the first clock reading: the last day of a week
TaskStart == 6 * (24 * 60 * 60)

\* the clock advances by a day; no command runs
TaskDay ==
    /\ now + (24 * 60 * 60) <= TaskStart + MaxTaskDays * (24 * 60 * 60)
    /\ now' = now + (24 * 60 * 60)
    /\ reply' = "none"
    /\ UNCHANGED <<config, pc, sects, user, rival, server, ops>>

InitTasks ==
    /\ user = NewUser({"calm", "curious", "cautious"})
    /\ rival = NewUser({"calm", "curious", "cautious"})
    /\ server = [total_users |-> 2, total_cultivations |-> 0, total_battles |-> 0]
    /\ now = TaskStart
    /\ reply = "none"
    /\ config = default_config
    /\ ops = 0
    /\ pc = [h \in Handlers |-> "idle"]
    /\ sects = NoSects

NextTasks ==
    \/ update_task_progress
    \/ claim_task_reward_repeated
    \/ TaskDay

SpecTasks == InitTasks /\ [][NextTasks]_vars

---------------------------------------------------------------------------
(* Two characters of the first two tiers joining and leaving sects.         *)

\* user_id of the two characters
UserIds == {"user", "rival"}

\* the sect ids join_sect is called with: the default sects and an id no
\* sect has
SectIds == DOMAIN _create_default_sects \cup {"unknown"}

\* SectSystem.get_available_sects
get_available_sects ==
    /\ sects' = (IF DOMAIN sects = {} THEN _create_default_sects ELSE sects)
    /\ reply' = "sects_listed"
    /\ UNCHANGED <<config, pc, user, rival, server, now, ops>>

\* SectSystem.join_sect for the character with id user_id
join_sect(user_id) ==
    \E sect_id \in SectIds :
        LET u == IF user_id = "user" THEN user ELSE rival
        IN  IF join_sect_allowed(u, sect_id, sects)
            THEN /\ IF user_id = "user"
                    THEN /\ user' = [user EXCEPT !.sect_id = sect_id]
                         /\ UNCHANGED rival
                    ELSE /\ rival' = [rival EXCEPT !.sect_id = sect_id]
                         /\ UNCHANGED user
                 /\ sects' = join_sect_members(sects, sect_id, user_id)
                 /\ reply' = "joined"
                 /\ UNCHANGED <<config, pc, server, now, ops>>
            ELSE /\ reply' = "join_refused"
                 /\ UNCHANGED <<config, pc, sects, user, rival, server, now, ops>>

\* SectSystem.leave_sect for the character with id user_id
leave_sect(user_id) ==
    LET u == IF user_id = "user" THEN user ELSE rival
    IN  IF u.sect_id = NoSect
        THEN /\ reply' = "leave_refused"
             /\ UNCHANGED <<config, pc, sects, user, rival, server, now, ops>>
        ELSE /\ sects' = leave_sect_members(sects, u, user_id)
             /\ IF user_id = "user"
                THEN /\ user' = [user EXCEPT !.sect_id = NoSect]
                     /\ UNCHANGED rival
                ELSE /\ rival' = [rival EXCEPT !.sect_id = NoSect]
                     /\ UNCHANGED user
             /\ reply' = "left"
             /\ UNCHANGED <<config, pc, server, now, ops>>

InitSects ==
    /\ \E inc \in StatRolls :
          /\ user \in { Ascended(NewUser({"calm", "curious", "cautious"}), t, inc) :
                          t \in {1, 2} }
          /\ rival \in { Ascended(NewUser({"calm", "curious", "cautious"}), t, inc) :
                           t \in {1, 2} }
    /\ server = [total_users |-> 2, total_cultivations |-> 0, total_battles |-> 0]
    /\ now = 0
    /\ reply = "none"
    /\ config = default_config
    /\ ops = 0
    /\ pc = [h \in Handlers |-> "idle"]
    /\ sects = NoSects

NextSects ==
    \/ get_available_sects
    \/ \E user_id \in UserIds : join_sect(user_id)
    \/ \E user_id \in UserIds : leave_sect(user_id)

SpecSects == InitSects /\ [][NextSects]_vars

---------------------------------------------------------------------------
(* Two runs of the generators and resolvers side by side: user is the       *)
(* record of the first run, rival the record of the second run, which       *)
(* starts from the same record, is fed the same draws, and reads a later    *)
(* clock.  reply tells whether the two runs produced the same outcome.      *)

\* the clock reading of the second run
TwinClock == now + get_cooldown_time("cultivation") + 1

\* the opponent both runs meet in a PvP battle
TwinOpponent == NewUser({"calm", "curious", "cautious"})

\* generate_random_event and perform_cultivation in both runs
twin_cultivation ==
    \E rf10 \in RandomFactors, event \in generate_random_event(user) :
        /\ user' = perform_cultivation(user, rf10, event, now)
        /\ IF event \in generate_random_event(rival)
           THEN /\ rival' = perform_cultivation(rival, rf10, event, TwinClock)
                /\ reply' = "same"
           ELSE /\ rival' = rival
                /\ reply' = "differ"

\* perform_breakthrough in both runs
twin_breakthrough ==
    /\ can_breakthrough(user)
    /\ \E d \in DrawPercents, inc \in StatRolls :
          /\ user' = perform_breakthrough(user, d, inc, now)
          /\ rival' = perform_breakthrough(rival, d, inc, TwinClock)
          /\ reply' = (IF breakthrough_draw_succeeds(user, d)
                          = breakthrough_draw_succeeds(rival, d)
                       THEN "same" ELSE "differ")

\* _generate_adventure_event and perform_adventure in both runs
twin_adventure ==
    \E event \in _generate_adventure_event(user) :
        /\ user' = (IF event = RaisedEvent THEN user
                    ELSE perform_adventure(user, event, now))
        /\ IF event \in _generate_adventure_event(rival)
           THEN /\ rival' = (IF event = RaisedEvent THEN rival
                             ELSE perform_adventure(rival, event, TwinClock))
                /\ reply' = "same"
           ELSE /\ rival' = rival
                /\ reply' = "differ"

\* generate_equipment and equip_item in both runs
twin_equipment ==
    \E equipment_type \in ItemTypes :
        \E equipment \in generate_equipment(user.realm_level, equipment_type) :
            /\ user' = equip_item_result(user, equipment)
            /\ IF equipment \in generate_equipment(rival.realm_level, equipment_type)
               THEN /\ rival' = equip_item_result(rival, equipment)
                    /\ reply' = "same"
               ELSE /\ rival' = rival
                    /\ reply' = "differ"

\* generate_monster and fight_monster in both runs
twin_monster ==
    \E monster_power \in generate_monster(user.realm_level), d \in DrawPercents :
        /\ user' = fight_monster_result(user, monster_power, d)
        /\ IF monster_power \in generate_monster(rival.realm_level)
           THEN /\ rival' = fight_monster_result(rival, monster_power, d)
                /\ reply' = (IF monster_draw_wins(user, monster_power, d)
                                = monster_draw_wins(rival, monster_power, d)
                             THEN "same" ELSE "differ")
           ELSE /\ rival' = rival
                /\ reply' = "differ"

\* execute_pvp_battle against the same opponent in both runs
twin_pvp ==
    \E d \in DrawPercents :
        /\ user' = execute_pvp_battle_result(user, TwinOpponent, d).attacker
        /\ rival' = execute_pvp_battle_result(rival, TwinOpponent, d).attacker
        /\ reply' = (IF calculate_battle_result(user, TwinOpponent, d)
                        = calculate_battle_result(rival, TwinOpponent, d)
                     THEN "same" ELSE "differ")

\* one generator or resolver is run in both runs
TwinStep(run) ==
    /\ ops < MaxTwinSteps
    /\ run
    /\ ops' = ops + 1
    /\ UNCHANGED <<server, now, config, pc, sects>>

InitTwin ==
    /\ user \in { [NewUser(traits) EXCEPT !.experience = exp] :
                    traits \in TraitChoices, exp \in {0, 100} }
    /\ rival = user
    /\ server = [total_users |-> 1, total_cultivations |-> 0, total_battles |-> 0]
    /\ now = 0
    /\ reply = "none"
    /\ config = default_config
    /\ ops = 0
    /\ pc = [h \in Handlers |-> "idle"]
    /\ sects = NoSects

NextTwin ==
    \/ TwinStep(twin_cultivation)
    \/ TwinStep(twin_breakthrough)
    \/ TwinStep(twin_adventure)
    \/ TwinStep(twin_equipment)
    \/ TwinStep(twin_monster)
    \/ TwinStep(twin_pvp)

SpecTwin == InitTwin /\ [][NextTwin]_vars

---------------------------------------------------------------------------
(* Properties.  A step is told apart by what it reports: reply' names the   *)
(* command of the step and its outcome.                                     *)

\* the configured cultivation interval I, seconds (30 minutes)
CultivationInterval == CultivationCooldownMinutes * 60

\* the experience is below the max_exp of the character's tier
ExperienceBelowCap ==
    \E r \in REALMS : r.level = user.realm_level /\ user.experience < r.max_exp

\* a cultivation cooldown is running at the clock reading now
CooldownRunning ==
    /\ user.last_cultivation_time # NoTime
    /\ now < user.last_cultivation_time + CultivationInterval

\* C1: realm_level never decreases; a successful breakthrough raises it by
\* exactly one, and no other operation changes it.
C1_RealmRisesOnlyByBreakthrough ==
    [][ /\ user'.realm_level >= user.realm_level
        /\ rival'.realm_level = rival.realm_level
        /\ (reply' = "breakthrough" => user'.realm_level = user.realm_level + 1)
        /\ (user'.realm_level # user.realm_level => reply' = "breakthrough") ]_vars

\* a breakthrough has succeeded and the character stands on tier 2
C1_Witness == reply = "breakthrough" /\ user.realm_level = 2

\* C2: a successful breakthrough from tier t leaves tier t + 1, experience 0
\* and breakthrough_attempts 0.
C2_SuccessResets ==
    [][ reply' = "breakthrough" =>
            /\ user'.realm_level = user.realm_level + 1
            /\ user'.experience = 0
            /\ user'.breakthrough_attempts = 0 ]_vars

\* a breakthrough has just succeeded: experience and attempt counter are reset
C2_Witness ==
    /\ reply = "breakthrough"
    /\ user.experience = 0
    /\ user.breakthrough_attempts = 0
    /\ user.last_breakthrough_time = now

\* C3: a failed attempt leaves the tier, takes old // 10 of the experience and
\* adds one to breakthrough_attempts.
C3_FailureCosts ==
    [][ reply' = "failed" =>
            /\ user'.realm_level = user.realm_level
            /\ user'.experience = user.experience - (user.experience \div 10)
            /\ user'.breakthrough_attempts = user.breakthrough_attempts + 1 ]_vars

\* a second attempt in a row has failed
C3_Witness == reply = "failed" /\ user.breakthrough_attempts = 2

\* C4: breakthrough_attempts is lowered only in a step that raises
\* realm_level; no other operation lowers it.
C4_AttemptsLoweredOnlyWithRealm ==
    [][ /\ (user'.breakthrough_attempts < user.breakthrough_attempts
               => user'.realm_level > user.realm_level)
        /\ (rival'.breakthrough_attempts < rival.breakthrough_attempts
               => rival'.realm_level > rival.realm_level) ]_vars

\* a cultivation has run while failed attempts are counted, and they still are
C4_Witness == reply = "cultivated" /\ user.breakthrough_attempts >= 1

\* C5: a breakthrough command with experience below the tier's max_exp is
\* rejected before the draw and leaves every record unchanged.
C5_InsufficientRejected ==
    [][ /\ (reply' \in {"breakthrough", "failed"} => ~ExperienceBelowCap)
        /\ (reply' = "insufficient" =>
               /\ ExperienceBelowCap
               /\ UNCHANGED <<user, rival, server>>) ]_vars

\* a breakthrough command was rejected with some experience gathered
C5_Witness ==
    /\ reply = "insufficient"
    /\ user.experience > 0
    /\ user.breakthrough_attempts = 0

\* C6: a cultivate command during the cooldown is rejected: experience,
\* last_cultivation_time, health, cultivation points and the server's
\* cultivation counter are unchanged.
C6_CooldownRejects ==
    [][ /\ (reply' = "cultivated" => ~CooldownRunning)
        /\ (reply' \in CooldownReplies =>
               /\ CooldownRunning
               /\ user'.experience = user.experience
               /\ user'.last_cultivation_time = user.last_cultivation_time
               /\ user'.current_hp = user.current_hp
               /\ user'.max_hp = user.max_hp
               /\ user'.cultivation_points = user.cultivation_points
               /\ server'.total_cultivations = server.total_cultivations
               /\ UNCHANGED <<user, rival, server>>) ]_vars

\* a cultivate command was rejected some time into the cooldown
C6_Witness ==
    /\ reply = "cooldown"
    /\ now > user.last_cultivation_time
    /\ server.total_cultivations = 1

\* C7: with last cultivation at T0 and interval I, can_cultivate is false at
\* every reading t with T0 <= t < T0 + I and true at every t >= T0 + I; it is
\* true when there is no last cultivation.
C7_GateBoundary ==
    \A t \in GateReadings :
        /\ user.last_cultivation_time = NoTime => can_cultivate(user, t)
        /\ (user.last_cultivation_time # NoTime /\ t >= user.last_cultivation_time)
               => (can_cultivate(user, t)
                      <=> t >= user.last_cultivation_time + CultivationInterval)

\* a cultivate command was rejected one second before the interval elapsed
C7_Witness ==
    /\ reply = "cooldown"
    /\ user.last_cultivation_time # NoTime
    /\ now = user.last_cultivation_time + CultivationInterval - 1

\* C8: every action type is gated by its own cooldown; a breakthrough is
\* attempted only when none was attempted before or the advancement interval
\* has elapsed since the last attempt.
C8_BreakthroughGated ==
    [][ reply' \in {"breakthrough", "failed"} =>
            \/ user.last_breakthrough_time = NoTime
            \/ now >= user.last_breakthrough_time + BreakthroughCooldown ]_vars

\* C9: experience is never negative.
C9_ExperienceNonNegative ==
    /\ user.experience >= 0
    /\ rival.experience >= 0

\* the character attacked with less experience than the loss and lost
C9_Witness ==
    /\ reply = "defender_wins"
    /\ user.losses = 1
    /\ user.experience = 0

C11_SpiritualPowerWithinCap ==
    /\ 0 <= user.spiritual_power
    /\ user.spiritual_power <= user.intelligence * 10
    /\ 0 <= rival.spiritual_power
    /\ rival.spiritual_power <= rival.intelligence * 10

\* a task reward of spiritual power was paid to a character already at the cap
C11_Witness ==
    /\ reply = "claimed"
    /\ user.spiritual_power = user.intelligence * 10

\* the rate after one more counted attempt, traits and base rate as they are
RateAfterOneMoreAttempt ==
    calculate_breakthrough_success_rate(
        [user EXCEPT !.breakthrough_attempts = @ + 1])

PowerTotal == calculate_combat_power(user) + calculate_combat_power(rival) + 1

\* C13: the PvP win rate lies in [0.05, 0.95] for every pair of non-negative
\* combat powers and every pair of luck values, whoever attacks.
C13_PvpRateWithinClamp ==
    /\ 5 * PowerTotal <= final_win_rate(user, rival)
    /\ final_win_rate(user, rival) <= 95 * PowerTotal
    /\ 5 * PowerTotal <= final_win_rate(rival, user)
    /\ final_win_rate(rival, user) <= 95 * PowerTotal

\* a battle was fought by an attacker without combat power and far less luck
\* against a strong defender: the rate sits at the lower clamp
C13_Witness ==
    /\ reply = "defender_wins"
    /\ calculate_combat_power(user) = 0
    /\ calculate_combat_power(rival) > 5000
    /\ user.luck + 100 < rival.luck
    /\ user.losses = 1
    /\ final_win_rate(user, rival) = 5 * PowerTotal

\* C14 (as stated): the PvE win probability the draw is compared with never
\* exceeds 0.9, whatever monster the character meets, 'fortunate' included.
C14_PveRateAtMostNineTenths ==
    \A monster_power \in generate_monster(user.realm_level) :
        monster_win_rate(user, monster_power)
            <= 90 * (calculate_combat_power(user) + monster_power + 1)

\* C15 (as stated): in every PvP battle the winner, attacker or defender,
\* gains max(10, loserPower // 10) experience and the loser loses
\* max(5, winnerPower // 20), floored at 0.
C15_PvpSpoilsByWinner ==
    [][ /\ user'.wins > user.wins =>
              /\ user'.experience =
                     user.experience + Max(10, calculate_combat_power(rival) \div 10)
              /\ rival'.experience =
                     Max(0, rival.experience
                            - Max(5, calculate_combat_power(user) \div 20))
        /\ rival'.wins > rival.wins =>
              /\ rival'.experience =
                     rival.experience + Max(10, calculate_combat_power(user) \div 10)
              /\ user'.experience =
                     Max(0, user.experience
                            - Max(5, calculate_combat_power(rival) \div 20)) ]_vars

\* C16: every PvP battle adds exactly 1 to the winner's wins and exactly 1 to
\* the loser's losses and leaves the other two win/loss counters alone, and
\* the wins of all characters sum to the losses of all characters in every
\* reachable state.
C16_WinsMatchLosses ==
    /\ [](user.wins + rival.wins = user.losses + rival.losses)
    /\ [][ server'.total_battles # server.total_battles =>
              \/ /\ user'.wins = user.wins + 1
                 /\ rival'.losses = rival.losses + 1
                 /\ user'.losses = user.losses
                 /\ rival'.wins = rival.wins
              \/ /\ rival'.wins = rival.wins + 1
                 /\ user'.losses = user.losses + 1
                 /\ rival'.losses = rival.losses
                 /\ user'.wins = user.wins ]_vars

\* two battles were fought, one won by each character
C16_Witness ==
    /\ server.total_battles = 2
    /\ user.wins = 1
    /\ user.losses = 1
    /\ rival.wins = 1
    /\ rival.losses = 1

\* C17: a monster fight that is won adds max(15, monsterPower // 8) to the
\* experience and leaves the hit points alone; one that is lost takes
\* max(5, exp // 20) experience, floored at 0, and max(10, max_hp // 10) hit
\* points, floored at 1; tier, attempts and base stats are unchanged by
\* either, as is every other field of the record.
C17_MonsterFightOutcome ==
    [][ /\ reply' = "victory" =>
              \E monster_power \in generate_monster(user.realm_level) :
                  user' = [user EXCEPT
                              !.experience = @ + Max(15, monster_power \div 8)]
        /\ reply' = "defeat" =>
              user' = [user EXCEPT
                          !.experience =
                              Max(0, @ - Max(5, user.experience \div 20)),
                          !.current_hp =
                              Max(1, @ - Max(10, user.max_hp \div 10))] ]_vars

\* a tier-2 character has beaten a monster worth more than the minimum reward
\* and has then lost a fight at the cost of experience and hit points
C17_Witness ==
    /\ reply = "defeat"
    /\ user.realm_level = 2
    /\ user.experience = 25 - Max(5, 25 \div 20)
    /\ user.current_hp < user.max_hp

\* the weight the profile gives the three highest qualities together
TopWeight(weights) == weights[4] + weights[5] + weights[6]

\* C18 (as stated): the quality of equipment is drawn from three distinct
\* weight profiles: the base profile below tier 5, a more top-heavy one at
\* tiers 5 to 7, and a third, still more top-heavy one from tier 8 on.
C18_ThreeQualityProfiles ==
    LET weights == quality_weights(user.realm_level)
    IN  /\ user.realm_level < 5 => weights = quality_weights(1)
        /\ user.realm_level \in 5..7 =>
              /\ weights = quality_weights(5)
              /\ TopWeight(weights) > TopWeight(quality_weights(1))
        /\ user.realm_level >= 8 =>
              /\ weights # quality_weights(5)
              /\ TopWeight(weights) > TopWeight(quality_weights(5))

\* the character has the trait 'fortunate'
Lucky == "fortunate" \in user.personality_traits

\* the character has the trait 'fearless'
Brave == "fearless" \in user.personality_traits

\* the cultivate weights the statement gives: 'fortunate' moves fortune and
\* disaster only
CultivateWeightsAsStated ==
    LET w == cultivate_event_weights(user)
    IN  /\ w.normal = 600
        /\ w.fortune = (IF Lucky THEN 250 ELSE 150)
        /\ w.disaster = (IF Lucky THEN 50 ELSE 100)
        /\ w.encounter = 150
        /\ \A c \in DOMAIN w : w[c] > 0

\* the excursion weights other than that of an encounter
AdventureWeightsButEncounter ==
    LET w == adventure_event_weights(user)
    IN  /\ w.battle = (IF Brave THEN 500 ELSE 400)
        /\ w.treasure = (IF Lucky THEN 350 ELSE 250)
        /\ w.cultivation = 100
        /\ w.disaster = (IF Lucky THEN 20 ELSE 50)
        /\ \A c \in DOMAIN w : w[c] > 0

\* C19 (as stated): the traits change only the weights named: in cultivate
\* events 'fortunate' only fortune (+0.10) and calamity (-0.05); in excursions
\* 'fortunate' only treasure (+0.10) and calamity (-0.03), 'fearless' only
\* combat (+0.10); every other weight is the base weight, the excursion's
\* encounter weight 0.20 included; every weight is strictly positive.
C19_OnlyNamedWeightsChange ==
    /\ CultivateWeightsAsStated
    /\ AdventureWeightsButEncounter
    /\ adventure_event_weights(user).encounter = 200

\* C19 (amended): as stated, except that in excursions 'fortunate' also
\* raises the encounter weight from 0.20 to 0.25.
C19_NamedWeightsAndEncounterChange ==
    /\ CultivateWeightsAsStated
    /\ AdventureWeightsButEncounter
    /\ adventure_event_weights(user).encounter = (IF Lucky THEN 250 ELSE 200)

\* a fortunate and fearless character has come back from an excursion and has
\* cultivated
C19_Witness ==
    /\ Lucky
    /\ Brave
    /\ user.last_adventure_time # NoTime
    /\ user.last_cultivation_time # NoTime
    /\ adventure_event_weights(user).encounter = 250
    /\ adventure_event_weights(user).disaster = 20

\* C20 (as stated): no exception escapes an excursion: whatever category is
\* drawn, an excursion that passed the gate returns an outcome and records
\* last_adventure_time, starting its cooldown.
C20_ExcursionAlwaysCompletes ==
    [][ reply' \in {"adventured", "raised"} =>
            /\ reply' = "adventured"
            /\ user'.last_adventure_time = now ]_vars

\* the record without its recorded timestamps
Untimed(u) ==
    [u EXCEPT !.last_cultivation_time = NoTime,
              !.last_breakthrough_time = NoTime,
              !.last_adventure_time = NoTime]

DerivedStatsConsistent(u) ==
    LET effects == calculate_equipment_effects(u)
    IN  /\ u.attack_power = 2 * u.strength + 10 * u.realm_level + effects.attack_bonus
        /\ u.defense_power = u.constitution + 5 * u.realm_level + effects.defense_bonus
        /\ u.max_hp = 10 * u.constitution + 50 * u.realm_level + effects.hp_bonus

\* C22 (as stated): after every equip_item and every successful breakthrough
\* attack_power = 2*strength + 10*tier + equipped attack bonuses,
\* defense_power = constitution + 5*tier + equipped defense bonuses and
\* max_hp = 10*constitution + 50*tier + equipped hp bonuses.
C22_DerivedStatsConsistent ==
    [][ reply' \in {"equipped", "breakthrough"} => DerivedStatsConsistent(user') ]_vars

\* C23: a character holds at most one equipped item per slot, each in the
\* slot of its type; equip_item puts the new item in its slot, appends the
\* item that was there to the inventory, and leaves the other two slots
\* alone; a pill is used and never occupies a slot.
C23_OneItemPerSlot ==
    /\ [](/\ DOMAIN user.equipment = Slots
          /\ \A slot \in Slots :
                \/ user.equipment[slot] = NoItem
                \/ valid_slots(user.equipment[slot].type) = slot)
    /\ [][ /\ reply' = "equipped" =>
                 \E slot \in Slots :
                     /\ user'.equipment[slot] # NoItem
                     /\ user'.equipment[slot] \in
                            generate_equipment(user.realm_level,
                                               user'.equipment[slot].type)
                     /\ \A other \in Slots \ {slot} :
                            user'.equipment[other] = user.equipment[other]
                     /\ user'.inventory =
                            (IF user.equipment[slot] # NoItem
                             THEN Append(user.inventory, user.equipment[slot])
                             ELSE user.inventory)
           /\ reply' = "used" =>
                 /\ user'.equipment = user.equipment
                 /\ user'.inventory = user.inventory ]_vars

\* a weapon was equipped over another weapon, which is now in the inventory,
\* while the accessory stayed in its slot
C23_Witness ==
    /\ reply = "equipped"
    /\ user.equipment["weapon_slot"] # NoItem
    /\ user.equipment["accessory_slot"] # NoItem
    /\ Len(user.inventory) = 1
    /\ user.inventory[1].type = "weapon"
    /\ user.inventory[1] # user.equipment["weapon_slot"]

\* C24 (as stated): the realm table has exactly one entry for each level
\* 1..10, and the tier of the character has exactly one entry in every
\* reachable state, also right after a breakthrough from the highest tier.
C24_RealmLookupTotal ==
    /\ \A level \in 1..10 : Cardinality(get_realm_info(level)) = 1
    /\ Cardinality(get_realm_info(user.realm_level)) = 1

\* C25 (as stated): whenever a cultivate command is rejected for cooldown,
\* the time left that it reports is positive, never "0分钟", although the gate
\* and the report read the clock one after the other.
C25_ReportedTimePositive ==
    reply \in CooldownReplies => reply = "cooldown"

\* C26: of two cultivate commands for the same character that interleave at
\* their suspension points, at most one passes the gate and grants experience
\* within one cooldown interval: a grant happens only with no cooldown
\* running and writes last_cultivation_time in the same uninterrupted step,
\* so the grants counted never exceed one per interval elapsed.
C26_OneGrantPerInterval ==
    /\ [](server.total_cultivations <= 1 + now \div CultivationInterval)
    /\ [][ server'.total_cultivations # server.total_cultivations =>
              /\ ~CooldownRunning
              /\ server'.total_cultivations = server.total_cultivations + 1
              /\ user'.last_cultivation_time = now ]_vars

\* while the first command waits for its narrative, the second was rejected
C26_Witness ==
    /\ pc["first"] = "narrating"
    /\ pc["second"] = "idle"
    /\ reply \in CooldownReplies
    /\ server.total_cultivations = 1
    /\ user.last_cultivation_time = now

\* C27: progress is always possible: a character at a tier t below the top
\* who cultivates whenever the gate allows and attempts the breakthrough
\* whenever experience >= max_exp eventually reaches tier t + 1 when the
\* draws are fair, although a failed attempt removes experience // 10 and
\* can put the character below the threshold again.
C27_NextTierReached ==
    \A t \in ProgressTiers :
        (user.realm_level = t) ~> (user.realm_level = t + 1)

\* a second attempt has failed and the character is below the threshold again
C27_Witness ==
    /\ reply = "failed"
    /\ user.breakthrough_attempts >= 2
    /\ ~can_breakthrough(user)
    /\ user.realm_level \in ProgressTiers

\* the target of the entry with key task_key: that of the task whose name
\* the key starts with
TargetOf(task_key) ==
    LET task == CHOOSE name \in DOMAIN task_targets :
                    /\ Len(task_key) > Len(name)
                    /\ SubSeq(task_key, 1, Len(name)) = name
    IN  task_targets[task]

\* C28: for every task-progress entry, after any sequence of
\* update_task_progress calls with positive increments, 0 <= progress <=
\* target, completed is true exactly when progress = target, and once
\* completed is true neither progress nor completed changes again.
C28_TaskProgressBounded ==
    /\ [](\A task_key \in DOMAIN user.task_progress :
             LET entry == user.task_progress[task_key]
             IN  /\ 0 <= entry.progress
                 /\ entry.progress <= TargetOf(task_key)
                 /\ entry.completed <=> (entry.progress = TargetOf(task_key)))
    /\ [][ \A task_key \in DOMAIN user.task_progress :
              user.task_progress[task_key].completed =>
                  /\ task_key \in DOMAIN user'.task_progress
                  /\ user'.task_progress[task_key] = user.task_progress[task_key]
         ]_vars

\* progress was recorded with the weekly cultivation entry of the second week
\* completed at its target and the daily one of that day completed too
C28_Witness ==
    /\ reply = "progress_recorded"
    /\ "weekly_cultivation_W1" \in DOMAIN user.task_progress
    /\ user.task_progress["weekly_cultivation_W1"] =
           [progress |-> 10, completed |-> TRUE]
    /\ "daily_cultivation_7" \in DOMAIN user.task_progress
    /\ user.task_progress["daily_cultivation_7"] =
           [progress |-> 1, completed |-> TRUE]
    /\ "weekly_cultivation_W0" \in DOMAIN user.task_progress

\* C29: a task's reward is granted at most once per character and task id:
\* a successful claim adds exactly one id that was not yet among the claimed
\* ones and none is ever removed, so a later claim for the id cannot succeed;
\* a refused claim (id already claimed, unknown, or task not completed)
\* leaves the whole record, experience, spiritual power, cultivation points
\* and inventory included, as it was.
C29_RewardGrantedOnce ==
    [][ /\ user.claimed_rewards \subseteq user'.claimed_rewards
        /\ reply' = "claimed" =>
              \E task_id \in TaskIds :
                  /\ task_id \notin user.claimed_rewards
                  /\ \E task \in get_tasks(user) :
                        task.id = task_id /\ task.completed
                  /\ user'.claimed_rewards = user.claimed_rewards \cup {task_id}
        /\ reply' = "claim_refused" => user' = user
        /\ (user'.experience # user.experience
               \/ user'.spiritual_power # user.spiritual_power
               \/ user'.cultivation_points # user.cultivation_points
               \/ user'.inventory # user.inventory) =>
              user'.claimed_rewards # user.claimed_rewards
      ]_vars

\* a claim was refused on a record whose login reward is already claimed,
\* with progress recorded for the day's cultivation task
C29_Witness ==
    /\ reply = "claim_refused"
    /\ "daily_login" \in user.claimed_rewards
    /\ user.experience = 50
    /\ "daily_cultivation_6" \in DOMAIN user.task_progress
    /\ user.task_progress["daily_cultivation_6"].completed

\* the character with id user_id
CharacterOf(user_id) == IF user_id = "user" THEN user ELSE rival

\* the sects that list user_id among their members
SectsOf(user_id) == { s \in DOMAIN sects : user_id \in sects[s].members }

\* C30: sect membership stays consistent over any sequence of join_sect and
\* leave_sect: a character's sect_id is s exactly when its id is in the
\* members of sect s, a character is a member of at most one sect, a join
\* succeeds only for a character without a sect, into a sect that exists and
\* whose min_realm the character has reached, and a refused join or leave
\* changes nothing.
C30_SectMembershipConsistent ==
    /\ [](\A user_id \in UserIds :
             /\ \A s \in DOMAIN sects :
                   (CharacterOf(user_id).sect_id = s) <=> (s \in SectsOf(user_id))
             /\ CharacterOf(user_id).sect_id \in DOMAIN sects \cup {NoSect}
             /\ Cardinality(SectsOf(user_id)) <= 1)
    /\ [][ /\ reply' \in {"join_refused", "leave_refused"} =>
                 UNCHANGED <<user, rival, sects>>
           /\ reply' = "joined" =>
                 \E user_id \in UserIds, s \in DOMAIN sects :
                     /\ CharacterOf(user_id).sect_id = NoSect
                     /\ CharacterOf(user_id).realm_level >= sects[s].min_realm
                     /\ sects' = [sects EXCEPT ![s].members = @ \cup {user_id}]
           /\ reply' = "left" =>
                 \E user_id \in UserIds :
                     /\ CharacterOf(user_id).sect_id # NoSect
                     /\ SectsOf(user_id)' = {}
         ]_vars

\* a tier-1 character in a sect was refused (another sect, or the sect that
\* asks for tier 2) while the other character is in the sect of tier 2
C30_Witness ==
    /\ reply = "join_refused"
    /\ user.realm_level = 1
    /\ user.sect_id = "qingyun"
    /\ rival.sect_id = "tianmo"
    /\ sects["tianmo"].members = {"rival"}
    /\ sects["qingyun"].members = {"user"}

====
